---- MODULE Spec2Model ----
(***************************************************************************)
(* A model of the pyweather domain objects: the coordinate base            *)
(* (BaseWeather), the forecast extension (BaseForecast), and the domain    *)
(* classes AirQuality, MarineWeather, Archive and Weather.                 *)
(*                                                                         *)
(* An object is a function from attribute names to values, exactly the     *)
(* attributes the Python code has assigned so far.  A call is evaluated    *)
(* statement by statement by the operators below; each returns a call      *)
(* record [o, exc, sent]: the object as the call left it, the exception it *)
(* raised ("none" when it returned) and the HTTP requests it issued.       *)
(*                                                                         *)
(* Nullable dictionary entries are tuples: <<>> is None, <<v>> is v.       *)
(* The code's assert statements are modelled as enabled (the interpreter's *)
(* default); a failed assert raises AssertionError.                        *)
(*                                                                         *)
(* sessions holds the class attribute _session of each domain class, and   *)
(* threads the position of each thread that is inside a setter (used by    *)
(* the interleaved specification ThreadSpec only).                         *)
(***************************************************************************)
EXTENDS Integers, Sequences, FiniteSets, TLC

VARIABLES obj, last, hist, sessions, threads

vars == <<obj, last, hist, sessions, threads>>

(***************************************************************************)
(* Program constants.                                                      *)
(***************************************************************************)
MinLat == -90
MaxLat == 90
BaseMinLong == -90
BaseMaxLong == 90
WeatherMinLong == -180
WeatherMaxLong == 180
DefaultForecastDays == 7
ForecastRangeStart == 1
ForecastRangeStop == 17
MarineMaxForecastDays == 8
AirMaxForecastDays == 7
HTTP_OK == 200
HTTP_BAD_REQUEST == 400
HTTP_SERVER_ERROR == 500

None == <<>>
Some(v) == <<v>>

\* common/constants.py: the endpoint of each domain.
MARINE_API == "MARINE_API"
AIR_QUALITY_API == "AIR_QUALITY_API"
WEATHER_API == "WEATHER_API"
WEATHER_HISTORY_API == "WEATHER_HISTORY_API"

\* common/constants.py: the public wave types and their request-key prefixes.
WAVE_TYPES_MAP == [composite |-> "", wind |-> "wind_", swell |-> "swell_"]

(***************************************************************************)
(* Bounds of the model.                                                    *)
(***************************************************************************)
\* The calendar is the last day of the year before FirstYear followed by
\* the first Months months, of DaysPerMonth days each, of the year FirstYear;
\* a date is its ordinal in 1..LastDay.
Months == 2
DaysPerMonth == 2
\* The number of requests one call is given responses for; a call that
\* issued more would have no response to read.
MaxRequests == 1

\* The first year that "%Y" writes with four digits.
FirstYear == 1000

\* Today is the day before the last day of the first month of FirstYear.
LastDay == Months * DaysPerMonth + 1
Today == DaysPerMonth

(***************************************************************************)
(* Inputs.                                                                 *)
(***************************************************************************)
LatInputs == {MinLat - 1, MinLat, MaxLat, MaxLat + 1}
LongInputs ==
    {WeatherMinLong - 1, WeatherMinLong, BaseMinLong, BaseMaxLong,
     WeatherMaxLong, WeatherMaxLong + 1}
ForecastInputs ==
    {ForecastRangeStart - 1, ForecastRangeStart, AirMaxForecastDays,
     AirMaxForecastDays + 1, MarineMaxForecastDays + 1,
     ForecastRangeStop - 1, ForecastRangeStop}
WaveInputs == {"composite", "wind", "swell", "tidal"}
StatusCodes == {HTTP_OK, HTTP_BAD_REQUEST, HTTP_SERVER_ERROR}
\* The value of the requested field in a 200 body: a number or null.
ValueInputs == {Some(0), None}
\* A response: its status, the reason text of an error body and the value
\* of the requested field of a 200 body.
ServerResponses ==
    {[status |-> HTTP_OK, reason |-> "", value |-> v] : v \in ValueInputs}
    \cup {[status |-> HTTP_BAD_REQUEST, value |-> None,
            reason |-> "No data is available for this location"],
           [status |-> HTTP_SERVER_ERROR, value |-> None,
            reason |-> "Internal server error"]}
Responses == [1..MaxRequests -> ServerResponses]
\* The availability probe names no field, so no answer to it holds a value.
ProbeResponses == {r \in Responses : \A i \in DOMAIN r : r[i].value = None}
\* Only MarineWeather issues requests from its constructor and setters; a
\* call on another class is given no response to read.
NoResponses == <<>>
ResponsesFor(c) ==
    IF c = "MarineWeather" THEN ProbeResponses ELSE {NoResponses}

\* A date argument: an ISO-looking string "YYYY-mm-dd" (mm and dd possibly
\* out of the calendar), a date, a datetime (a date and an hour), or a
\* value of some other type.
\* Every value carries its year y; a string also has the number of
\* characters of its year field (width), four in an ISO string. The inputs
\* are the days of FirstYear and the last day of the year before it.
StrInputs ==
    [kind : {"str"}, y : {FirstYear}, width : {4}, m : 0..Months,
     d : 1..(DaysPerMonth + 1), h : {0}]
    \cup {[kind |-> "str", y |-> FirstYear - 1, width |-> 4, m |-> Months,
           d |-> DaysPerMonth, h |-> 0]}
DateObjInputs ==
    [kind : {"date"}, y : {FirstYear}, width : {4}, m : 1..Months,
     d : 1..DaysPerMonth, h : {0}]
    \cup {[kind |-> "date", y |-> FirstYear - 1, width |-> 4, m |-> Months,
           d |-> DaysPerMonth, h |-> 0]}
DatetimeInputs ==
    [kind : {"datetime"}, y : {FirstYear}, width : {4}, m : 1..Months,
     d : 1..DaysPerMonth, h : {12}]
    \cup {[kind |-> "datetime", y |-> FirstYear - 1, width |-> 4,
           m |-> Months, d |-> DaysPerMonth, h |-> 12]}
OtherInputs ==
    {[kind |-> "other", y |-> 0, width |-> 0, m |-> 0, d |-> 0, h |-> 0]}
DateInputs == StrInputs \cup DateObjInputs \cup DatetimeInputs \cup OtherInputs

(***************************************************************************)
(* Objects, dictionaries and call records.                                 *)
(***************************************************************************)
NoObject == [cls |-> "none"]
NewObject(c) == [cls |-> c]

\* object.__setattr__(o, name, v)
SetAttr(o, name, v) ==
    [a \in DOMAIN o \cup {name} |-> IF a = name THEN v ELSE o[a]]
\* d[k] = v
SetItem(d, k, v) ==
    [a \in DOMAIN d \cup {k} |-> IF a = k THEN v ELSE d[a]]

\* A call record also carries the message of the exception raised ("" when
\* it has none) and the value returned (None when there is none).
Return(o, sent) ==
    [o |-> o, exc |-> "none", sent |-> sent, error |-> "", value |-> None]
ReturnValue(o, v, sent) ==
    [o |-> o, exc |-> "none", sent |-> sent, error |-> "", value |-> v]
Raise(o, e, sent) ==
    [o |-> o, exc |-> e, sent |-> sent, error |-> "", value |-> None]
RaiseError(o, e, message, sent) ==
    [o |-> o, exc |-> e, sent |-> sent, error |-> message, value |-> None]
\* Sequencing: the next statement runs only if the previous one returned.
Then(r, F(_)) == IF r.exc # "none" THEN r ELSE F(r)

(***************************************************************************)
(* Dates (datetime.strptime / date.strftime over the model's calendar).    *)
(***************************************************************************)
\* The days of a year of the calendar; day 2 is the first day of FirstYear.
DaysPerYear == Months * DaysPerMonth
Ordinal(y, m, d) ==
    (y - FirstYear) * DaysPerYear + (m - 1) * DaysPerMonth + d + 1
YearOf(n) == FirstYear + ((n - 2) \div DaysPerYear)
MonthOf(n) == (((n - 2) % DaysPerYear) \div DaysPerMonth) + 1
DayOf(n) == ((n - 2) % DaysPerMonth) + 1

\* The number of characters of a year written without padding.
Digits(y) ==
    IF y < 10 THEN 1 ELSE IF y < 100 THEN 2 ELSE IF y < 1000 THEN 3 ELSE 4

\* datetime.strptime(text, "%Y-%m-%d") accepts the text iff its year field
\* has four digits and it names a day of the calendar.
Parses(t) == t.width = 4 /\ t.m \in 1..Months /\ t.d \in 1..DaysPerMonth

\* date.strftime("%Y-%m-%d"): the C library writes the year without
\* padding.
strftime(n) ==
    [kind |-> "str", y |-> YearOf(n), width |-> Digits(YearOf(n)),
     m |-> MonthOf(n), d |-> DayOf(n), h |-> 0]

\* Archive._resolve_date: [exc, date]
_resolve_date(target) ==
    IF target.kind \notin {"date", "datetime"} /\
       ~(target.kind = "str" /\ Parses(target))
    THEN [exc |-> "ValueError", date |-> 0]
    ELSE LET n == Ordinal(target.y, target.m, target.d)
         IN  IF ~(n <= Today)
             THEN [exc |-> "AssertionError", date |-> 0]
             ELSE [exc |-> "none", date |-> n]

(***************************************************************************)
(* Class attributes: each domain class creates its session when the class  *)
(* is defined, and names its endpoint.                                     *)
(***************************************************************************)
DomainClasses == {"Weather", "MarineWeather", "AirQuality", "Archive"}

\* _session = requests.Session() in each class body: four distinct sessions,
\* all open.
ClassSessions ==
    [c \in DomainClasses |->
        [id |-> CASE c = "Weather" -> 1
                  [] c = "MarineWeather" -> 2
                  [] c = "AirQuality" -> 3
                  [] c = "Archive" -> 4,
         closed |-> FALSE]]

\* The classes whose body calls atexit.register(_session.close).
AtExitRegistered == {"MarineWeather", "AirQuality"}

\* One session for every class.
_session_Shared(o) == sessions["Weather"].id

\* self._session, resolved on the class of the instance.
_session(o) == sessions[o.cls].id

\* self._api
_api(o) ==
    CASE o.cls = "Weather" -> WEATHER_API
      [] o.cls = "MarineWeather" -> MARINE_API
      [] o.cls = "AirQuality" -> AIR_QUALITY_API
      [] o.cls = "Archive" -> WEATHER_HISTORY_API

(***************************************************************************)
(* Requests.                                                               *)
(***************************************************************************)
\* RequestError.__init__ without the server's message.
RequestError_NoReason(status_code, message) ==
    "Server responded with status code " \o ToString(status_code) \o ". "

\* RequestError.__init__: the message of the exception.
RequestError(status_code, message) ==
    "Server responded with status code " \o ToString(status_code) \o ". "
        \o message

\* session.get(api, params=params): the n-th request of a call is answered
\* by resp[n]; the request is recorded with its answer.
Get(session, api, params, sent, resp) ==
    LET response == resp[Len(sent) + 1]
    IN  [response |-> response,
         sent |-> Append(sent, [session |-> session, api |-> api,
                                params |-> params,
                                status |-> response.status,
                                reason |-> response.reason,
                                body |-> response.value])]

(***************************************************************************)
(* MarineWeather: the availability probe and the attribute hook.           *)
(***************************************************************************)
\* MarineWeather._check_data_availability: one GET with the template as its
\* parameters.
_check_data_availability(o, sent, resp) ==
    LET g == Get(_session(o), MARINE_API, o._params, sent, resp)
    IN  IF g.response.status # HTTP_OK
        THEN RaiseError(o, "RequestError",
                        RequestError(g.response.status, g.response.reason),
                        g.sent)
        ELSE Return(o, g.sent)

\* MarineWeather.__setattr__
Marine__setattr__(o, name, v, sent, resp) ==
    LET o1 == SetAttr(o, name, v)
    IN  IF name \in {"_lat", "_long"} /\
           o1._params.latitude # None /\ o1._params.longitude # None
        THEN _check_data_availability(o1, sent, resp)
        ELSE Return(o1, sent)

\* self.<name> = v: the class's __setattr__.
SetAttribute(o, name, v, sent, resp) ==
    IF o.cls = "MarineWeather"
    THEN Marine__setattr__(o, name, v, sent, resp)
    ELSE Return(SetAttr(o, name, v), sent)

(***************************************************************************)
(* BaseWeather.                                                            *)
(***************************************************************************)
\* BaseWeather.lat setter: self._lat = self._params["latitude"] = value
\* assigns the attribute first and the dictionary entry second.
lat_setter(o, v, sent, resp) ==
    IF ~(MinLat <= v /\ v <= MaxLat)
    THEN Raise(o, "AssertionError", sent)
    ELSE Then(SetAttribute(o, "_lat", v, sent, resp),
              LAMBDA r : Return([r.o EXCEPT !._params =
                                    SetItem(@, "latitude", Some(v))], r.sent))

\* A long setter that stores its template entry under the latitude key.
long_setter_IntoLatitude(o, v, sent, resp) ==
    IF ~(BaseMinLong <= v /\ v <= BaseMaxLong)
    THEN Raise(o, "AssertionError", sent)
    ELSE Then(SetAttribute(o, "_long", v, sent, resp),
              LAMBDA r : Return([r.o EXCEPT !._params =
                                    SetItem(@, "latitude", Some(v))], r.sent))

\* BaseWeather.long setter
long_setter(o, v, sent, resp) ==
    IF ~(BaseMinLong <= v /\ v <= BaseMaxLong)
    THEN Raise(o, "AssertionError", sent)
    ELSE Then(SetAttribute(o, "_long", v, sent, resp),
              LAMBDA r : Return([r.o EXCEPT !._params =
                                    SetItem(@, "longitude", Some(v))], r.sent))

\* BaseWeather.__init__
BaseWeather__init__(o, lat, long, sent, resp) ==
    Then(SetAttribute(o, "_params",
                      [latitude |-> None, longitude |-> None], sent, resp),
    LAMBDA r0 : Then(lat_setter(r0.o, lat, r0.sent, resp),
    LAMBDA r1 : long_setter(r1.o, long, r1.sent, resp)))

(***************************************************************************)
(* BaseForecast.                                                           *)
(***************************************************************************)
\* The forecast_days setter without its last statement: the attribute is
\* stored and the template is left as it was.
forecast_days_setter_NoTemplate(o, v, sent, resp) ==
    IF v \notin ForecastRangeStart..(ForecastRangeStop - 1)
    THEN Raise(o, "AssertionError", sent)
    ELSE SetAttribute(o, "_forecast_days", v, sent, resp)

\* BaseForecast.forecast_days setter
forecast_days_setter(o, v, sent, resp) ==
    IF v \notin ForecastRangeStart..(ForecastRangeStop - 1)
    THEN Raise(o, "AssertionError", sent)
    ELSE Then(SetAttribute(o, "_forecast_days", v, sent, resp),
              LAMBDA r : Return([r.o EXCEPT !._params =
                                    SetItem(@, "forecast_days", v)], r.sent))

\* BaseForecast.__init__
BaseForecast__init__(o, lat, long, forecast_days, sent, resp) ==
    Then(BaseWeather__init__(o, lat, long, sent, resp),
    LAMBDA r : forecast_days_setter(r.o, forecast_days, r.sent, resp))

(***************************************************************************)
(* MarineWeather.                                                          *)
(***************************************************************************)
\* A wave_type setter that probes again when it replaces a wave type.
wave_type_setter_Probing(o, v, sent, resp) ==
    IF v \notin DOMAIN WAVE_TYPES_MAP
    THEN Raise(o, "ValueError", sent)
    ELSE Then(SetAttribute(o, "_wave_type", v, sent, resp),
         LAMBDA r : Then(SetAttribute(r.o, "_type", WAVE_TYPES_MAP[v],
                                      r.sent, resp),
         LAMBDA q : IF "_wave_type" \in DOMAIN o
                    THEN _check_data_availability(q.o, q.sent, resp)
                    ELSE q))

\* A wave_type setter that stores the value before it looks it up.
wave_type_setter_StoreFirst(o, v, sent, resp) ==
    Then(SetAttribute(o, "_wave_type", v, sent, resp),
         LAMBDA r : IF v \notin DOMAIN WAVE_TYPES_MAP
                    THEN Raise(r.o, "ValueError", r.sent)
                    ELSE SetAttribute(r.o, "_type", WAVE_TYPES_MAP[v],
                                      r.sent, resp))

\* MarineWeather.wave_type setter
wave_type_setter(o, v, sent, resp) ==
    IF v \notin DOMAIN WAVE_TYPES_MAP
    THEN Raise(o, "ValueError", sent)
    ELSE Then(SetAttribute(o, "_wave_type", v, sent, resp),
              LAMBDA r : SetAttribute(r.o, "_type", WAVE_TYPES_MAP[v],
                                      r.sent, resp))

\* MarineWeather.__init__
MarineWeather__init__(o, lat, long, wave_type, forecast_days, sent, resp) ==
    Then(BaseForecast__init__(o, lat, long, forecast_days, sent, resp),
    LAMBDA r0 : Then(_check_data_availability(r0.o, r0.sent, resp),
    LAMBDA r1 : wave_type_setter(r1.o, wave_type, r1.sent, resp)))

(***************************************************************************)
(* Archive.                                                                *)
(***************************************************************************)
\* Archive.start_date setter
start_date_setter(o, v, sent, resp) ==
    LET d == _resolve_date(v)
    IN  IF d.exc # "none"
        THEN Raise(o, d.exc, sent)
        ELSE SetAttribute(o, "_start_date", d.date, sent, resp)

\* Archive.end_date setter
end_date_setter(o, v, sent, resp) ==
    LET d == _resolve_date(v)
    IN  IF d.exc # "none"
        THEN Raise(o, d.exc, sent)
        ELSE IF ~(d.date > o._start_date)
             THEN Raise(o, "AssertionError", sent)
             ELSE SetAttribute(o, "_end_date", d.date, sent, resp)

\* Archive.start_date / Archive.end_date getters
start_date_getter(o) == strftime(o._start_date)
end_date_getter(o) == strftime(o._end_date)

\* Archive.__init__
Archive__init__(o, lat, long, start_date, end_date, sent, resp) ==
    Then(BaseWeather__init__(o, lat, long, sent, resp),
    LAMBDA r0 : Then(start_date_setter(r0.o, start_date, r0.sent, resp),
    LAMBDA r1 : Then(end_date_setter(r1.o, end_date, r1.sent, resp),
    LAMBDA r2 : Return([r2.o EXCEPT !._params =
                           SetItem(SetItem(@, "start_date", start_date),
                                   "end_date", end_date)], r2.sent))))

(***************************************************************************)
(* Weather.                                                                *)
(***************************************************************************)
\* Weather.__init__
Weather__init__(o, lat, long, sent, resp) ==
    IF ~(MinLat <= lat /\ lat <= MaxLat)
    THEN Raise(o, "AssertionError", sent)
    ELSE IF ~(WeatherMinLong <= long /\ long <= WeatherMaxLong)
         THEN Raise(o, "AssertionError", sent)
         ELSE SetAttribute(o, "_params",
                           [latitude |-> Some(lat), longitude |-> Some(long)],
                           sent, resp)

\* The lat / long properties: Weather reads them from the template, the
\* other classes from their attributes.
lat_getter(o) == IF o.cls = "Weather" THEN o._params.latitude[1] ELSE o._lat
long_getter(o) == IF o.cls = "Weather" THEN o._params.longitude[1] ELSE o._long

(***************************************************************************)
(* Dictionaries and strings of the accessors.                              *)
(***************************************************************************)
\* d1 | d2: the entries of both, those of d2 winning.
DictOr(d1, d2) ==
    [k \in DOMAIN d1 \cup DOMAIN d2 |-> IF k \in DOMAIN d2 THEN d2[k] ELSE d1[k]]

\* sep.join(items)
RECURSIVE join(_, _)
join(sep, items) ==
    IF Len(items) = 0 THEN ""
    ELSE IF Len(items) = 1 THEN items[1]
         ELSE items[1] \o sep \o join(sep, Tail(items))

\* str(x) of a JSON value
str(x) == IF x = None THEN "None" ELSE ToString(x[1])

\* common/constants.py: the descriptions of the weather codes, keyed by the
\* code's decimal text.
WEATHER_CODES == [c \in {"0"} |-> "Clear sky"]

\* common/constants.py: the labels of a marine summary.
MARINE_WEATHER_SUMMARY_DATA_TYPES ==
    <<"wave_height", "wave_direction", "wave_period">>

\* common/constants.py: the soil depth ranges (first depth, depth after the
\* last) and their request keys, in the order they are searched.
ARCHIVE_SOIL_DEPTH ==
    <<[first |-> 0, stop |-> 7, key |-> "0_to_7"],
      [first |-> 7, stop |-> 28, key |-> "7_to_28"],
      [first |-> 28, stop |-> 100, key |-> "28_to_100"],
      [first |-> 100, stop |-> 256, key |-> "100_to_255"]>>

(***************************************************************************)
(* The fetch primitives of common/tools.py.  Each issues one GET; a status *)
(* other than 200 raises RequestError with the status code and the body's  *)
(* reason; a 200 returns what the body holds for the requested field.      *)
(***************************************************************************)
\* The transport shared by the four primitives.
Fetch(o, session, api, params, sent, resp) ==
    LET g == Get(session, api, params, sent, resp)
    IN  IF g.response.status # HTTP_OK
        THEN RaiseError(o, "RequestError",
                        RequestError(g.response.status, g.response.reason),
                        g.sent)
        ELSE ReturnValue(o, g.response.value, g.sent)

\* tools.get_current_data(session, api, params)
tools_get_current_data(o, session, api, params, sent, resp) ==
    Fetch(o, session, api, params, sent, resp)

\* tools.get_periodical_data(session, api, params)
tools_get_periodical_data(o, session, api, params, sent, resp) ==
    Fetch(o, session, api, params, sent, resp)

\* tools.get_current_summary(session, api, params, labels): the data of the
\* response labelled, position by position, with labels.
tools_get_current_summary(o, session, api, params, labels, sent, resp) ==
    Then(Fetch(o, session, api, params, sent, resp),
         LAMBDA r : ReturnValue(r.o, <<r.value, labels>>, r.sent))

\* tools.get_periodical_summary(session, api, params, labels)
tools_get_periodical_summary(o, session, api, params, labels, sent, resp) ==
    Then(Fetch(o, session, api, params, sent, resp),
         LAMBDA r : ReturnValue(r.o, <<r.value, labels>>, r.sent))

(***************************************************************************)
(* BaseWeather: the request helpers.                                       *)
(***************************************************************************)
\* The helper with the merge turned round: self._params |= params.
get_current_weather_data_IntoTemplate(o, params, sent, resp) ==
    LET o1 == [o EXCEPT !._params = DictOr(@, params)]
    IN  tools_get_current_data(o1, _session(o1), _api(o1), o1._params, sent,
                               resp)

\* BaseWeather.get_current_weather_data: params |= self._params updates the
\* caller's dictionary, the template's entries winning; the template itself
\* is only read.
get_current_weather_data(o, params, sent, resp) ==
    tools_get_current_data(o, _session(o), _api(o), DictOr(params, o._params),
                           sent, resp)

\* The helper answering without a request to the server.
get_periodical_data_NoRequest(o, params, sent, resp) ==
    ReturnValue(o, resp[Len(sent) + 1].value, sent)

\* BaseWeather.get_periodical_data
get_periodical_data(o, params, sent, resp) ==
    tools_get_periodical_data(o, _session(o), _api(o),
                              DictOr(params, o._params), sent, resp)

\* self._get_current_data / self._get_periodical_data, the names under
\* which AirQuality and MarineWeather call the two helpers.
_get_current_data(o, params, sent, resp) ==
    get_current_weather_data(o, params, sent, resp)
_get_periodical_data(o, params, sent, resp) ==
    get_periodical_data(o, params, sent, resp)

(***************************************************************************)
(* AirQuality accessors.                                                   *)
(***************************************************************************)
\* A gas check that accepts every name.
_verify_atmospheric_gas_Any(gas) == "none"

\* AirQuality._verify_atmospheric_gas: the exception it raises.
_verify_atmospheric_gas(gas) ==
    IF gas \notin {"ozone", "carbon_monoxide", "nitrogen_dioxide",
                   "sulphur_dioxide"}
    THEN "ValueError"
    ELSE "none"

\* AirQuality._verify_plant_species: the exception it raises.
_verify_plant_species(plant) ==
    IF plant \notin {"alder", "birch", "grass", "mugwort", "olive", "ragweed"}
    THEN "ValueError"
    ELSE "none"

get_current_aqi(o, source, sent, resp) ==
    IF source \notin {"european", "us"}
    THEN Raise(o, "ValueError", sent)
    ELSE _get_current_data(o, [current |-> "european_aqi"], sent, resp)

\* An ammonia accessor that refuses a null value.
get_current_ammonia_conc_NoNull(o, sent, resp) ==
    Then(_get_current_data(o, [current |-> "ammonia"], sent, resp),
         LAMBDA r : IF r.value = None THEN Raise(r.o, "ValueError", r.sent)
                    ELSE r)

get_current_ammonia_conc(o, sent, resp) ==
    _get_current_data(o, [current |-> "ammonia"], sent, resp)

get_current_dust_conc(o, sent, resp) ==
    _get_current_data(o, [current |-> "dust"], sent, resp)

get_current_gaseous_conc(o, gas, sent, resp) ==
    IF _verify_atmospheric_gas(gas) # "none"
    THEN Raise(o, _verify_atmospheric_gas(gas), sent)
    ELSE _get_current_data(o, [current |-> gas], sent, resp)

get_current_pm2_5_conc(o, sent, resp) ==
    _get_current_data(o, [current |-> "pm2_5"], sent, resp)

get_current_pm10_conc(o, sent, resp) ==
    _get_current_data(o, [current |-> "pm10"], sent, resp)

get_current_pollen_conc(o, plant, sent, resp) ==
    IF _verify_plant_species(plant) # "none"
    THEN Raise(o, _verify_plant_species(plant), sent)
    ELSE _get_current_data(o, [current |-> plant \o "_pollen"], sent, resp)

get_current_uv_index(o, sent, resp) ==
    _get_current_data(o, [current |-> "uv_index"], sent, resp)

get_current_aerosol_optical_depth(o, sent, resp) ==
    _get_current_data(o, [current |-> "aerosol_optical_depth"], sent, resp)

get_hourly_dust_conc(o, sent, resp) ==
    _get_periodical_data(o, [hourly |-> "dust"], sent, resp)

get_hourly_uv_index(o, sent, resp) ==
    _get_periodical_data(o, [hourly |-> "uv_index"], sent, resp)

get_hourly_pm2_5_conc(o, sent, resp) ==
    _get_periodical_data(o, [hourly |-> "pm2_5"], sent, resp)

get_hourly_pm10_conc(o, sent, resp) ==
    _get_periodical_data(o, [hourly |-> "pm10"], sent, resp)

get_hourly_pollen_conc(o, plant, sent, resp) ==
    IF _verify_plant_species(plant) # "none"
    THEN Raise(o, _verify_plant_species(plant), sent)
    ELSE _get_periodical_data(o, [hourly |-> plant \o "_pollen"], sent, resp)

get_hourly_aerosol_optical_depth(o, sent, resp) ==
    _get_periodical_data(o, [hourly |-> "aerosol_optical_depth"], sent, resp)

get_hourly_gaseous_conc(o, gas, sent, resp) ==
    IF _verify_atmospheric_gas(gas) # "none"
    THEN Raise(o, _verify_atmospheric_gas(gas), sent)
    ELSE _get_periodical_data(o, [hourly |-> gas], sent, resp)

get_hourly_ammonia_conc(o, sent, resp) ==
    _get_periodical_data(o, [hourly |-> "ammonia"], sent, resp)

(***************************************************************************)
(* MarineWeather accessors.                                                *)
(***************************************************************************)
\* The comma-separated keys of a summary: each field with the wave type's
\* prefix.
data_types(o, fields) == o._type \o join("," \o o._type, fields)

get_current_summary(o, sent, resp) ==
    tools_get_current_summary(
        o, _session(o), _api(o),
        DictOr(o._params,
               [current |-> data_types(o, MARINE_WEATHER_SUMMARY_DATA_TYPES)]),
        MARINE_WEATHER_SUMMARY_DATA_TYPES, sent, resp)

get_hourly_summary(o, sent, resp) ==
    tools_get_periodical_summary(
        o, _session(o), _api(o),
        DictOr(o._params,
               [hourly |-> data_types(o, MARINE_WEATHER_SUMMARY_DATA_TYPES)]),
        MARINE_WEATHER_SUMMARY_DATA_TYPES, sent, resp)

get_daily_summary(o, sent, resp) ==
    tools_get_periodical_summary(
        o, _session(o), _api(o),
        DictOr(o._params,
               [daily |-> data_types(o, <<"wave_height_max",
                                          "wave_direction_dominant",
                                          "wave_period_max">>)]),
        MARINE_WEATHER_SUMMARY_DATA_TYPES, sent, resp)

get_current_wave_height(o, sent, resp) ==
    _get_current_data(o, [current |-> o._type \o "wave_height"], sent, resp)

get_current_wave_direction(o, sent, resp) ==
    _get_current_data(o, [current |-> o._type \o "wave_direction"], sent, resp)

get_current_wave_period(o, sent, resp) ==
    _get_current_data(o, [current |-> o._type \o "wave_period"], sent, resp)

get_hourly_wave_height(o, sent, resp) ==
    _get_periodical_data(o, [hourly |-> o._type \o "wave_height"], sent, resp)

get_hourly_wave_direction(o, sent, resp) ==
    _get_periodical_data(o, [hourly |-> o._type \o "wave_direction"], sent,
                         resp)

get_hourly_wave_period(o, sent, resp) ==
    _get_periodical_data(o, [hourly |-> o._type \o "wave_period"], sent, resp)

get_daily_max_wave_height(o, sent, resp) ==
    _get_periodical_data(o, [daily |-> o._type \o "wave_height_max"], sent,
                         resp)

get_daily_dominant_wave_direction(o, sent, resp) ==
    _get_periodical_data(o, [daily |-> o._type \o "wave_direction_dominant"],
                         sent, resp)

get_daily_max_wave_period(o, sent, resp) ==
    _get_periodical_data(o, [daily |-> o._type \o "wave_period_max"], sent,
                         resp)

(***************************************************************************)
(* Archive accessors.                                                      *)
(***************************************************************************)
get_hourly_temperature(o, unit, sent, resp) ==
    IF unit \notin {"celsius", "fahrenheit"}
    THEN Raise(o, "ValueError", sent)
    ELSE get_periodical_data(
             o, [hourly |-> "temperature_2m", temperature_unit |-> unit],
             sent, resp)

get_hourly_relative_humidity(o, sent, resp) ==
    get_periodical_data(o, [hourly |-> "relative_humidity_2m"], sent, resp)

\* The description column is looked up in WEATHER_CODES by str(code).
get_periodic_weather_code(o, frequency, sent, resp) ==
    IF frequency \notin {"hourly", "daily"}
    THEN Raise(o, "ValueError", sent)
    ELSE Then(get_periodical_data(
                  o, [k \in {frequency} |-> "weather_code"], sent, resp),
              LAMBDA r :
                  IF str(r.value) \notin DOMAIN WEATHER_CODES
                  THEN Raise(r.o, "KeyError", r.sent)
                  ELSE ReturnValue(r.o, <<r.value,
                                          WEATHER_CODES[str(r.value)]>>,
                                   r.sent))

get_hourly_total_cloud_cover(o, sent, resp) ==
    get_periodical_data(o, [hourly |-> "cloud_cover"], sent, resp)

get_hourly_cloud_cover(o, level, sent, resp) ==
    IF level \notin {"low", "mid", "high"}
    THEN Raise(o, "ValueError", sent)
    ELSE get_periodical_data(o, [hourly |-> "cloud_cover_" \o level], sent,
                             resp)

get_hourly_apparent_temperature(o, unit, sent, resp) ==
    IF unit \notin {"celsius", "fahrenheit"}
    THEN Raise(o, "ValueError", sent)
    ELSE get_periodical_data(
             o, [hourly |-> "apparent_temperature", temperature_unit |-> unit],
             sent, resp)

get_hourly_dew_point(o, unit, sent, resp) ==
    IF unit \notin {"celsius", "fahrenheit"}
    THEN Raise(o, "ValueError", sent)
    ELSE get_periodical_data(
             o, [hourly |-> "dew_point_2m", temperature_unit |-> unit],
             sent, resp)

get_hourly_precipitation(o, unit, sent, resp) ==
    IF unit \notin {"mm", "inch"}
    THEN Raise(o, "ValueError", sent)
    ELSE get_periodical_data(
             o, [hourly |-> "precipitation", precipitation_unit |-> unit],
             sent, resp)

get_hourly_wind_speed(o, altitude, unit, sent, resp) ==
    IF altitude \notin {10, 100}
    THEN Raise(o, "ValueError", sent)
    ELSE IF unit \notin {"kmh", "mph", "ms", "kn"}
         THEN Raise(o, "ValueError", sent)
         ELSE get_periodical_data(
                  o, [hourly |-> "wind_speed_" \o ToString(altitude) \o "m",
                      wind_speed_unit |-> unit],
                  sent, resp)

get_hourly_wind_direction(o, altitude, sent, resp) ==
    IF altitude \notin {10, 100}
    THEN Raise(o, "ValueError", sent)
    ELSE get_periodical_data(
             o, [hourly |-> "wind_direction_" \o ToString(altitude)], sent,
             resp)

get_hourly_wind_gusts(o, altitude, unit, sent, resp) ==
    IF altitude \notin {10, 100}
    THEN Raise(o, "ValueError", sent)
    ELSE IF unit \notin {"kmh", "mph", "ms", "kn"}
         THEN Raise(o, "ValueError", sent)
         ELSE get_periodical_data(
                  o, [hourly |-> "wind_gusts_" \o ToString(altitude) \o "m",
                      wind_speed_unit |-> unit],
                  sent, resp)

\* The soil accessor without the else of its loop: a depth in no range
\* takes the last range.
get_hourly_soil_temperature_NoElse(o, depth, unit, sent, resp) ==
    IF unit \notin {"celsius", "fahrenheit"}
    THEN Raise(o, "ValueError", sent)
    ELSE LET found == {i \in 1..Len(ARCHIVE_SOIL_DEPTH) :
                          /\ ARCHIVE_SOIL_DEPTH[i].first <= depth
                          /\ depth < ARCHIVE_SOIL_DEPTH[i].stop}
             i == IF found = {} THEN Len(ARCHIVE_SOIL_DEPTH)
                  ELSE CHOOSE n \in found : \A m \in found : n <= m
         IN  get_periodical_data(
                 o, [hourly |-> "soil_temperature_"
                                    \o ARCHIVE_SOIL_DEPTH[i].key \o "cm",
                     temperature_unit |-> unit],
                 sent, resp)

\* The for/else over ARCHIVE_SOIL_DEPTH: the first range holding depth.
get_hourly_soil_temperature(o, depth, unit, sent, resp) ==
    IF unit \notin {"celsius", "fahrenheit"}
    THEN Raise(o, "ValueError", sent)
    ELSE LET found == {i \in 1..Len(ARCHIVE_SOIL_DEPTH) :
                          /\ ARCHIVE_SOIL_DEPTH[i].first <= depth
                          /\ depth < ARCHIVE_SOIL_DEPTH[i].stop}
         IN  IF found = {}
             THEN Raise(o, "ValueError", sent)
             ELSE LET i == CHOOSE n \in found : \A m \in found : n <= m
                      depth_range == ARCHIVE_SOIL_DEPTH[i].key
                  IN  get_periodical_data(
                          o, [hourly |-> "soil_temperature_" \o depth_range
                                             \o "cm",
                              temperature_unit |-> unit],
                          sent, resp)

get_daily_temperature(o, type, unit, sent, resp) ==
    IF type \notin {"max", "min", "mean"}
    THEN Raise(o, "ValueError", sent)
    ELSE IF unit \notin {"celsius", "fahrenheit"}
         THEN Raise(o, "ValueError", sent)
         ELSE get_periodical_data(
                  o, [daily |-> "temperature_2m_" \o type,
                      temperature_unit |-> unit],
                  sent, resp)

get_daily_apparent_temperature(o, type, unit, sent, resp) ==
    IF type \notin {"max", "min", "mean"}
    THEN Raise(o, "ValueError", sent)
    ELSE IF unit \notin {"celsius", "fahrenheit"}
         THEN Raise(o, "ValueError", sent)
         ELSE get_periodical_data(
                  o, [daily |-> "apparent_temperature_" \o type,
                      temperature_unit |-> unit],
                  sent, resp)

get_daily_dominant_wind_direction(o, sent, resp) ==
    get_periodical_data(o, [daily |-> "wind_direction_10m_dominant"], sent,
                        resp)

(***************************************************************************)
(* Weather accessors: each builds self._params | {...}, the call's entries *)
(* winning.                                                                *)
(***************************************************************************)
get_current_temperature(o, altitude, unit, sent, resp) ==
    IF altitude \notin {2, 80, 120, 180}
    THEN Raise(o, "ValueError", sent)
    ELSE IF unit \notin {"celcius", "fahrenheit"}
         THEN Raise(o, "ValueError", sent)
         ELSE tools_get_current_data(
                  o, _session(o), _api(o),
                  DictOr(o._params,
                         [current |-> "temperature_" \o ToString(altitude)
                                          \o "m",
                          temperature_unit |-> unit]),
                  sent, resp)

get_current_weather_code(o, sent, resp) ==
    Then(tools_get_current_data(o, _session(o), _api(o),
                                DictOr(o._params, [current |-> "weather_code"]),
                                sent, resp),
         LAMBDA r :
             IF str(r.value) \notin DOMAIN WEATHER_CODES
             THEN Raise(r.o, "KeyError", r.sent)
             ELSE ReturnValue(r.o, <<r.value, WEATHER_CODES[str(r.value)]>>,
                              r.sent))

get_current_total_cloud_cover(o, sent, resp) ==
    tools_get_current_data(o, _session(o), _api(o),
                           DictOr(o._params, [current |-> "cloud_cover"]),
                           sent, resp)

get_current_cloud_cover(o, level, sent, resp) ==
    IF level \notin {"low", "mid", "high"}
    THEN Raise(o, "ValueError", sent)
    ELSE tools_get_current_data(
             o, _session(o), _api(o),
             DictOr(o._params, [current |-> "cloud_cover_" \o level]),
             sent, resp)

(***************************************************************************)
(* The state machine.  obj is the caller's reference (NoObject before a    *)
(* construction succeeds and after the reference is dropped), last is the  *)
(* most recent call: its operation, class, arguments, exception and the    *)
(* requests it issued.  hist remembers whether the constructor was given   *)
(* forecast_days and whether forecast_days was set since.                  *)
(***************************************************************************)
ForecastClasses == {"BaseForecast", "AirQuality", "MarineWeather"}
SetterClasses == ForecastClasses \cup {"Archive"}
Classes == SetterClasses \cup {"Weather"}

NoCall == [op |-> "none", cls |-> "none", args |-> <<>>, exc |-> "none",
           sent |-> <<>>, error |-> "", value |-> None]
NoHist == [fd_given |-> FALSE, fd_set |-> FALSE]

\* The threads that may call setters of one object, and a thread that is
\* inside no setter and has called none.
Threads == {1, 2}
Idle == [pc |-> "idle", op |-> "none", v |-> 0, used |-> FALSE]

Init ==
    /\ obj = NoObject
    /\ last = NoCall
    /\ hist = NoHist
    /\ sessions = ClassSessions
    /\ threads = [t \in Threads |-> Idle]

\* The caller holds no object and no call is on record.
Fresh == obj = NoObject /\ last = NoCall

\* The accessor methods of each domain class.
AirQualityAccessors ==
    {"get_current_aqi", "get_current_ammonia_conc", "get_current_dust_conc",
     "get_current_gaseous_conc", "get_current_pm2_5_conc",
     "get_current_pm10_conc", "get_current_pollen_conc",
     "get_current_uv_index", "get_current_aerosol_optical_depth",
     "get_hourly_dust_conc", "get_hourly_uv_index", "get_hourly_pm2_5_conc",
     "get_hourly_pm10_conc", "get_hourly_pollen_conc",
     "get_hourly_aerosol_optical_depth", "get_hourly_gaseous_conc",
     "get_hourly_ammonia_conc"}
MarineWeatherAccessors ==
    {"get_current_summary", "get_hourly_summary", "get_daily_summary",
     "get_current_wave_height", "get_current_wave_direction",
     "get_current_wave_period", "get_hourly_wave_height",
     "get_hourly_wave_direction", "get_hourly_wave_period",
     "get_daily_max_wave_height", "get_daily_dominant_wave_direction",
     "get_daily_max_wave_period"}
ArchiveAccessors ==
    {"get_hourly_temperature", "get_hourly_relative_humidity",
     "get_periodic_weather_code", "get_hourly_total_cloud_cover",
     "get_hourly_cloud_cover", "get_hourly_apparent_temperature",
     "get_hourly_dew_point", "get_hourly_precipitation",
     "get_hourly_wind_speed", "get_hourly_wind_direction",
     "get_hourly_wind_gusts", "get_hourly_soil_temperature",
     "get_daily_temperature", "get_daily_apparent_temperature",
     "get_daily_dominant_wind_direction"}
WeatherAccessors ==
    {"get_current_temperature", "get_current_weather_code",
     "get_current_total_cloud_cover", "get_current_cloud_cover"}
AccessorOps ==
    AirQualityAccessors \cup MarineWeatherAccessors \cup ArchiveAccessors
    \cup WeatherAccessors

\* x = Cls(...): the reference is bound only if __init__ returned.
Construct(c, args, r) ==
    /\ obj' = IF r.exc = "none" THEN r.o ELSE NoObject
    /\ last' = [op |-> "__init__", cls |-> c, args |-> args, exc |-> r.exc,
                sent |-> r.sent, error |-> r.error, value |-> r.value]
    /\ hist' = [fd_given |-> "forecast_days" \in DOMAIN args /\
                             args.forecast_days # None,
                fd_set |-> FALSE]
    /\ UNCHANGED <<sessions, threads>>

\* x.<property> = value: the object is whatever the setter left behind.
\* (A setter's outcome does not depend on the accessor call on record: the
\* caller is done with that call first.)
Mutate(op, args, r) ==
    /\ last.op \notin AccessorOps
    /\ obj' = r.o
    /\ last' = [op |-> op, cls |-> obj.cls, args |-> args, exc |-> r.exc,
                sent |-> r.sent, error |-> r.error, value |-> r.value]
    /\ hist' = [hist EXCEPT !.fd_set = @ \/ (op = "forecast_days" /\
                                              r.exc = "none")]
    /\ UNCHANGED <<sessions, threads>>

\* An omitted forecast_days argument takes the signature's default.
ForecastArg(fd) == IF fd = None THEN DefaultForecastDays ELSE fd[1]
ForecastArgs == {None} \cup {Some(v) : v \in ForecastInputs}

\* BaseForecast(lat, long[, forecast_days]) / AirQuality(...)
NewForecast ==
    /\ Fresh
    /\ \E c \in {"BaseForecast", "AirQuality"}, lat \in LatInputs,
          long \in LongInputs, fd \in ForecastArgs :
         \E resp \in ResponsesFor(c) :
           Construct(c, [lat |-> lat, long |-> long, forecast_days |-> fd],
                     BaseForecast__init__(NewObject(c), lat, long,
                                          ForecastArg(fd), <<>>, resp))

\* MarineWeather(lat, long, wave_type[, forecast_days])
NewMarineWeather ==
    /\ Fresh
    /\ \E lat \in LatInputs, long \in LongInputs, w \in WaveInputs,
          fd \in ForecastArgs, resp \in ResponsesFor("MarineWeather") :
           Construct("MarineWeather",
                     [lat |-> lat, long |-> long, wave_type |-> w,
                      forecast_days |-> fd],
                     MarineWeather__init__(NewObject("MarineWeather"), lat,
                                           long, w, ForecastArg(fd), <<>>,
                                           resp))

\* Archive(lat, long, start_date, end_date)
NewArchive ==
    /\ Fresh
    /\ \E lat \in LatInputs, long \in LongInputs, sd \in DateInputs,
          ed \in DateInputs, resp \in ResponsesFor("Archive") :
           Construct("Archive",
                     [lat |-> lat, long |-> long, start_date |-> sd,
                      end_date |-> ed],
                     Archive__init__(NewObject("Archive"), lat, long, sd, ed,
                                     <<>>, resp))

\* Weather(lat, long)
NewWeather ==
    /\ Fresh
    /\ \E lat \in LatInputs, long \in LongInputs,
          resp \in ResponsesFor("Weather") :
           Construct("Weather", [lat |-> lat, long |-> long],
                     Weather__init__(NewObject("Weather"), lat, long, <<>>,
                                     resp))

\* x.lat = v
SetLat ==
    /\ obj.cls \in SetterClasses
    /\ \E v \in LatInputs, resp \in ResponsesFor(obj.cls) :
        Mutate("lat", [lat |-> v], lat_setter(obj, v, <<>>, resp))

\* x.long = v
SetLong ==
    /\ obj.cls \in SetterClasses
    /\ \E v \in LongInputs, resp \in ResponsesFor(obj.cls) :
        Mutate("long", [long |-> v], long_setter(obj, v, <<>>, resp))

\* x.forecast_days = v
SetForecastDays ==
    /\ obj.cls \in ForecastClasses
    /\ \E v \in ForecastInputs, resp \in ResponsesFor(obj.cls) :
        Mutate("forecast_days", [forecast_days |-> v],
               forecast_days_setter(obj, v, <<>>, resp))

\* x.wave_type = v
SetWaveType ==
    /\ obj.cls = "MarineWeather"
    /\ \E v \in WaveInputs, resp \in ResponsesFor(obj.cls) :
        Mutate("wave_type", [wave_type |-> v],
               wave_type_setter(obj, v, <<>>, resp))

\* x.start_date = v
SetStartDate ==
    /\ obj.cls = "Archive"
    /\ \E v \in DateInputs \cup {start_date_getter(obj)},
          resp \in ResponsesFor(obj.cls) :
        Mutate("start_date", [start_date |-> v],
               start_date_setter(obj, v, <<>>, resp))

\* x.end_date = v
SetEndDate ==
    /\ obj.cls = "Archive"
    /\ \E v \in DateInputs \cup {end_date_getter(obj)},
          resp \in ResponsesFor(obj.cls) :
        Mutate("end_date", [end_date |-> v],
               end_date_setter(obj, v, <<>>, resp))

(***************************************************************************)
(* Accessor calls: the arguments tried and the answers of the server.      *)
(***************************************************************************)
SourceInputs == {"european", "us", "asian"}
GasInputs ==
    {"ozone", "carbon_monoxide", "nitrogen_dioxide", "sulphur_dioxide",
     "methane"}
PlantInputs ==
    {"alder", "birch", "grass", "mugwort", "olive", "ragweed", "oak"}
TemperatureUnitInputs == {"celsius", "celcius", "fahrenheit"}
PrecipitationUnitInputs == {"mm", "inch", "cm"}
WindSpeedUnitInputs == {"kmh", "mph", "ms", "kn", "fps"}
WindAltitudeInputs == {10, 100, 80}
AltitudeInputs == {2, 80, 120, 180, 10}
LevelInputs == {"low", "mid", "high", "top"}
FrequencyInputs == {"hourly", "daily", "current"}
DailyTypeInputs == {"max", "min", "mean", "median"}
DepthInputs == {-1, 0, 7, 28, 100, 255, 256}

\* Two-argument calls of Archive: each argument over its inputs with the
\* other at the signature's default or at its first documented value.
WindArgs ==
    {[altitude |-> a, unit |-> "kmh"] : a \in WindAltitudeInputs}
    \cup {[altitude |-> 10, unit |-> u] : u \in WindSpeedUnitInputs}
SoilArgs ==
    {[depth |-> d, unit |-> "celsius"] : d \in DepthInputs}
    \cup {[depth |-> 0, unit |-> u] : u \in TemperatureUnitInputs}
DailyArgs ==
    {[type |-> t, unit |-> "celsius"] : t \in DailyTypeInputs}
    \cup {[type |-> "max", unit |-> u] : u \in TemperatureUnitInputs}
\* Weather.get_current_temperature: every pair.
TemperatureArgs == [altitude : AltitudeInputs, unit : TemperatureUnitInputs]

NoArgs == <<>>

\* Within one call the server answers a repeated request as it answered the
\* first.
AccessorResponses == {r \in Responses : \A i \in DOMAIN r : r[i] = r[1]}

\* An accessor's outcome depends on the object and on the server's answer
\* alone, so accessors are called from the states with no call on record
\* and, to repeat a call, from the state that very call left.
Quiet(op, args) ==
    \/ last.op = "none"
    \/ last.op = op /\ last.args = args

\* x.<accessor>(...): the object is whatever the call left behind.
Call(op, args, r) ==
    /\ Quiet(op, args)
    /\ obj' = r.o
    /\ last' = [op |-> op, cls |-> obj.cls, args |-> args, exc |-> r.exc,
                sent |-> r.sent, error |-> r.error, value |-> r.value]
    /\ UNCHANGED <<hist, sessions, threads>>

\* The accessors of AirQuality.
GetCurrentAqi ==
    /\ obj.cls = "AirQuality"
    /\ last.op \in {"none", "get_current_aqi"}
    /\ \E source \in SourceInputs, resp \in AccessorResponses :
         Call("get_current_aqi", [source |-> source],
              get_current_aqi(obj, source, <<>>, resp))

GetCurrentAmmoniaConc ==
    /\ obj.cls = "AirQuality"
    /\ last.op \in {"none", "get_current_ammonia_conc"}
    /\ \E resp \in AccessorResponses :
         Call("get_current_ammonia_conc", NoArgs, get_current_ammonia_conc(obj, <<>>, resp))

GetCurrentDustConc ==
    /\ obj.cls = "AirQuality"
    /\ last.op \in {"none", "get_current_dust_conc"}
    /\ \E resp \in AccessorResponses :
         Call("get_current_dust_conc", NoArgs, get_current_dust_conc(obj, <<>>, resp))

GetCurrentGaseousConc ==
    /\ obj.cls = "AirQuality"
    /\ last.op \in {"none", "get_current_gaseous_conc"}
    /\ \E gas \in GasInputs, resp \in AccessorResponses :
         Call("get_current_gaseous_conc", [gas |-> gas],
              get_current_gaseous_conc(obj, gas, <<>>, resp))

GetCurrentPm25Conc ==
    /\ obj.cls = "AirQuality"
    /\ last.op \in {"none", "get_current_pm2_5_conc"}
    /\ \E resp \in AccessorResponses :
         Call("get_current_pm2_5_conc", NoArgs, get_current_pm2_5_conc(obj, <<>>, resp))

GetCurrentPm10Conc ==
    /\ obj.cls = "AirQuality"
    /\ last.op \in {"none", "get_current_pm10_conc"}
    /\ \E resp \in AccessorResponses :
         Call("get_current_pm10_conc", NoArgs, get_current_pm10_conc(obj, <<>>, resp))

GetCurrentPollenConc ==
    /\ obj.cls = "AirQuality"
    /\ last.op \in {"none", "get_current_pollen_conc"}
    /\ \E plant \in PlantInputs, resp \in AccessorResponses :
         Call("get_current_pollen_conc", [plant |-> plant],
              get_current_pollen_conc(obj, plant, <<>>, resp))

GetCurrentUvIndex ==
    /\ obj.cls = "AirQuality"
    /\ last.op \in {"none", "get_current_uv_index"}
    /\ \E resp \in AccessorResponses :
         Call("get_current_uv_index", NoArgs, get_current_uv_index(obj, <<>>, resp))

GetCurrentAerosolOpticalDepth ==
    /\ obj.cls = "AirQuality"
    /\ last.op \in {"none", "get_current_aerosol_optical_depth"}
    /\ \E resp \in AccessorResponses :
         Call("get_current_aerosol_optical_depth", NoArgs, get_current_aerosol_optical_depth(obj, <<>>, resp))

GetHourlyDustConc ==
    /\ obj.cls = "AirQuality"
    /\ last.op \in {"none", "get_hourly_dust_conc"}
    /\ \E resp \in AccessorResponses :
         Call("get_hourly_dust_conc", NoArgs, get_hourly_dust_conc(obj, <<>>, resp))

GetHourlyUvIndex ==
    /\ obj.cls = "AirQuality"
    /\ last.op \in {"none", "get_hourly_uv_index"}
    /\ \E resp \in AccessorResponses :
         Call("get_hourly_uv_index", NoArgs, get_hourly_uv_index(obj, <<>>, resp))

GetHourlyPm25Conc ==
    /\ obj.cls = "AirQuality"
    /\ last.op \in {"none", "get_hourly_pm2_5_conc"}
    /\ \E resp \in AccessorResponses :
         Call("get_hourly_pm2_5_conc", NoArgs, get_hourly_pm2_5_conc(obj, <<>>, resp))

GetHourlyPm10Conc ==
    /\ obj.cls = "AirQuality"
    /\ last.op \in {"none", "get_hourly_pm10_conc"}
    /\ \E resp \in AccessorResponses :
         Call("get_hourly_pm10_conc", NoArgs, get_hourly_pm10_conc(obj, <<>>, resp))

GetHourlyPollenConc ==
    /\ obj.cls = "AirQuality"
    /\ last.op \in {"none", "get_hourly_pollen_conc"}
    /\ \E plant \in PlantInputs, resp \in AccessorResponses :
         Call("get_hourly_pollen_conc", [plant |-> plant],
              get_hourly_pollen_conc(obj, plant, <<>>, resp))

GetHourlyAerosolOpticalDepth ==
    /\ obj.cls = "AirQuality"
    /\ last.op \in {"none", "get_hourly_aerosol_optical_depth"}
    /\ \E resp \in AccessorResponses :
         Call("get_hourly_aerosol_optical_depth", NoArgs, get_hourly_aerosol_optical_depth(obj, <<>>, resp))

GetHourlyGaseousConc ==
    /\ obj.cls = "AirQuality"
    /\ last.op \in {"none", "get_hourly_gaseous_conc"}
    /\ \E gas \in GasInputs, resp \in AccessorResponses :
         Call("get_hourly_gaseous_conc", [gas |-> gas],
              get_hourly_gaseous_conc(obj, gas, <<>>, resp))

GetHourlyAmmoniaConc ==
    /\ obj.cls = "AirQuality"
    /\ last.op \in {"none", "get_hourly_ammonia_conc"}
    /\ \E resp \in AccessorResponses :
         Call("get_hourly_ammonia_conc", NoArgs, get_hourly_ammonia_conc(obj, <<>>, resp))


\* The accessors of MarineWeather.
GetCurrentSummary ==
    /\ obj.cls = "MarineWeather"
    /\ last.op \in {"none", "get_current_summary"}
    /\ \E resp \in AccessorResponses :
         Call("get_current_summary", NoArgs, get_current_summary(obj, <<>>, resp))

GetHourlySummary ==
    /\ obj.cls = "MarineWeather"
    /\ last.op \in {"none", "get_hourly_summary"}
    /\ \E resp \in AccessorResponses :
         Call("get_hourly_summary", NoArgs, get_hourly_summary(obj, <<>>, resp))

GetDailySummary ==
    /\ obj.cls = "MarineWeather"
    /\ last.op \in {"none", "get_daily_summary"}
    /\ \E resp \in AccessorResponses :
         Call("get_daily_summary", NoArgs, get_daily_summary(obj, <<>>, resp))

GetCurrentWaveHeight ==
    /\ obj.cls = "MarineWeather"
    /\ last.op \in {"none", "get_current_wave_height"}
    /\ \E resp \in AccessorResponses :
         Call("get_current_wave_height", NoArgs, get_current_wave_height(obj, <<>>, resp))

GetCurrentWaveDirection ==
    /\ obj.cls = "MarineWeather"
    /\ last.op \in {"none", "get_current_wave_direction"}
    /\ \E resp \in AccessorResponses :
         Call("get_current_wave_direction", NoArgs, get_current_wave_direction(obj, <<>>, resp))

GetCurrentWavePeriod ==
    /\ obj.cls = "MarineWeather"
    /\ last.op \in {"none", "get_current_wave_period"}
    /\ \E resp \in AccessorResponses :
         Call("get_current_wave_period", NoArgs, get_current_wave_period(obj, <<>>, resp))

GetHourlyWaveHeight ==
    /\ obj.cls = "MarineWeather"
    /\ last.op \in {"none", "get_hourly_wave_height"}
    /\ \E resp \in AccessorResponses :
         Call("get_hourly_wave_height", NoArgs, get_hourly_wave_height(obj, <<>>, resp))

GetHourlyWaveDirection ==
    /\ obj.cls = "MarineWeather"
    /\ last.op \in {"none", "get_hourly_wave_direction"}
    /\ \E resp \in AccessorResponses :
         Call("get_hourly_wave_direction", NoArgs, get_hourly_wave_direction(obj, <<>>, resp))

GetHourlyWavePeriod ==
    /\ obj.cls = "MarineWeather"
    /\ last.op \in {"none", "get_hourly_wave_period"}
    /\ \E resp \in AccessorResponses :
         Call("get_hourly_wave_period", NoArgs, get_hourly_wave_period(obj, <<>>, resp))

GetDailyMaxWaveHeight ==
    /\ obj.cls = "MarineWeather"
    /\ last.op \in {"none", "get_daily_max_wave_height"}
    /\ \E resp \in AccessorResponses :
         Call("get_daily_max_wave_height", NoArgs, get_daily_max_wave_height(obj, <<>>, resp))

GetDailyDominantWaveDirection ==
    /\ obj.cls = "MarineWeather"
    /\ last.op \in {"none", "get_daily_dominant_wave_direction"}
    /\ \E resp \in AccessorResponses :
         Call("get_daily_dominant_wave_direction", NoArgs, get_daily_dominant_wave_direction(obj, <<>>, resp))

GetDailyMaxWavePeriod ==
    /\ obj.cls = "MarineWeather"
    /\ last.op \in {"none", "get_daily_max_wave_period"}
    /\ \E resp \in AccessorResponses :
         Call("get_daily_max_wave_period", NoArgs, get_daily_max_wave_period(obj, <<>>, resp))


\* The accessors of Archive.
GetHourlyTemperature ==
    /\ obj.cls = "Archive"
    /\ last.op \in {"none", "get_hourly_temperature"}
    /\ \E unit \in TemperatureUnitInputs, resp \in AccessorResponses :
         Call("get_hourly_temperature", [unit |-> unit],
              get_hourly_temperature(obj, unit, <<>>, resp))

GetHourlyRelativeHumidity ==
    /\ obj.cls = "Archive"
    /\ last.op \in {"none", "get_hourly_relative_humidity"}
    /\ \E resp \in AccessorResponses :
         Call("get_hourly_relative_humidity", NoArgs, get_hourly_relative_humidity(obj, <<>>, resp))

GetPeriodicWeatherCode ==
    /\ obj.cls = "Archive"
    /\ last.op \in {"none", "get_periodic_weather_code"}
    /\ \E frequency \in FrequencyInputs, resp \in AccessorResponses :
         Call("get_periodic_weather_code", [frequency |-> frequency],
              get_periodic_weather_code(obj, frequency, <<>>, resp))

GetHourlyTotalCloudCover ==
    /\ obj.cls = "Archive"
    /\ last.op \in {"none", "get_hourly_total_cloud_cover"}
    /\ \E resp \in AccessorResponses :
         Call("get_hourly_total_cloud_cover", NoArgs, get_hourly_total_cloud_cover(obj, <<>>, resp))

GetHourlyCloudCover ==
    /\ obj.cls = "Archive"
    /\ last.op \in {"none", "get_hourly_cloud_cover"}
    /\ \E level \in LevelInputs, resp \in AccessorResponses :
         Call("get_hourly_cloud_cover", [level |-> level],
              get_hourly_cloud_cover(obj, level, <<>>, resp))

GetHourlyApparentTemperature ==
    /\ obj.cls = "Archive"
    /\ last.op \in {"none", "get_hourly_apparent_temperature"}
    /\ \E unit \in TemperatureUnitInputs, resp \in AccessorResponses :
         Call("get_hourly_apparent_temperature", [unit |-> unit],
              get_hourly_apparent_temperature(obj, unit, <<>>, resp))

GetHourlyDewPoint ==
    /\ obj.cls = "Archive"
    /\ last.op \in {"none", "get_hourly_dew_point"}
    /\ \E unit \in TemperatureUnitInputs, resp \in AccessorResponses :
         Call("get_hourly_dew_point", [unit |-> unit],
              get_hourly_dew_point(obj, unit, <<>>, resp))

GetHourlyPrecipitation ==
    /\ obj.cls = "Archive"
    /\ last.op \in {"none", "get_hourly_precipitation"}
    /\ \E unit \in PrecipitationUnitInputs, resp \in AccessorResponses :
         Call("get_hourly_precipitation", [unit |-> unit],
              get_hourly_precipitation(obj, unit, <<>>, resp))

GetHourlyWindSpeed ==
    /\ obj.cls = "Archive"
    /\ last.op \in {"none", "get_hourly_wind_speed"}
    /\ \E a \in WindArgs, resp \in AccessorResponses :
         Call("get_hourly_wind_speed", a,
              get_hourly_wind_speed(obj, a.altitude, a.unit, <<>>, resp))

GetHourlyWindDirection ==
    /\ obj.cls = "Archive"
    /\ last.op \in {"none", "get_hourly_wind_direction"}
    /\ \E altitude \in WindAltitudeInputs, resp \in AccessorResponses :
         Call("get_hourly_wind_direction", [altitude |-> altitude],
              get_hourly_wind_direction(obj, altitude, <<>>, resp))

GetHourlyWindGusts ==
    /\ obj.cls = "Archive"
    /\ last.op \in {"none", "get_hourly_wind_gusts"}
    /\ \E a \in WindArgs, resp \in AccessorResponses :
         Call("get_hourly_wind_gusts", a,
              get_hourly_wind_gusts(obj, a.altitude, a.unit, <<>>, resp))

GetHourlySoilTemperature ==
    /\ obj.cls = "Archive"
    /\ last.op \in {"none", "get_hourly_soil_temperature"}
    /\ \E a \in SoilArgs, resp \in AccessorResponses :
         Call("get_hourly_soil_temperature", a,
              get_hourly_soil_temperature(obj, a.depth, a.unit, <<>>, resp))

GetDailyTemperature ==
    /\ obj.cls = "Archive"
    /\ last.op \in {"none", "get_daily_temperature"}
    /\ \E a \in DailyArgs, resp \in AccessorResponses :
         Call("get_daily_temperature", a,
              get_daily_temperature(obj, a.type, a.unit, <<>>, resp))

GetDailyApparentTemperature ==
    /\ obj.cls = "Archive"
    /\ last.op \in {"none", "get_daily_apparent_temperature"}
    /\ \E a \in DailyArgs, resp \in AccessorResponses :
         Call("get_daily_apparent_temperature", a,
              get_daily_apparent_temperature(obj, a.type, a.unit, <<>>, resp))

GetDailyDominantWindDirection ==
    /\ obj.cls = "Archive"
    /\ last.op \in {"none", "get_daily_dominant_wind_direction"}
    /\ \E resp \in AccessorResponses :
         Call("get_daily_dominant_wind_direction", NoArgs, get_daily_dominant_wind_direction(obj, <<>>, resp))


\* The accessors of Weather.
GetCurrentTemperature ==
    /\ obj.cls = "Weather"
    /\ last.op \in {"none", "get_current_temperature"}
    /\ \E a \in TemperatureArgs, resp \in AccessorResponses :
         Call("get_current_temperature", a,
              get_current_temperature(obj, a.altitude, a.unit, <<>>, resp))

GetCurrentWeatherCode ==
    /\ obj.cls = "Weather"
    /\ last.op \in {"none", "get_current_weather_code"}
    /\ \E resp \in AccessorResponses :
         Call("get_current_weather_code", NoArgs, get_current_weather_code(obj, <<>>, resp))

GetCurrentTotalCloudCover ==
    /\ obj.cls = "Weather"
    /\ last.op \in {"none", "get_current_total_cloud_cover"}
    /\ \E resp \in AccessorResponses :
         Call("get_current_total_cloud_cover", NoArgs, get_current_total_cloud_cover(obj, <<>>, resp))

GetCurrentCloudCover ==
    /\ obj.cls = "Weather"
    /\ last.op \in {"none", "get_current_cloud_cover"}
    /\ \E level \in LevelInputs, resp \in AccessorResponses :
         Call("get_current_cloud_cover", [level |-> level],
              get_current_cloud_cover(obj, level, <<>>, resp))

\* The interpreter exits: the callbacks registered with atexit run and the
\* objects are gone.
Exit ==
    /\ last.op # "exit"
    /\ sessions' = [c \in DomainClasses |->
                       IF c \in AtExitRegistered
                       THEN [sessions[c] EXCEPT !.closed = TRUE]
                       ELSE sessions[c]]
    /\ obj' = NoObject
    /\ last' = [NoCall EXCEPT !.op = "exit"]
    /\ hist' = NoHist
    /\ UNCHANGED threads

\* The caller is done with the outcome of the last call and keeps the
\* object.
Forget ==
    /\ obj # NoObject
    /\ last.op \notin {"none", "exit"}
    /\ last' = NoCall
    /\ UNCHANGED <<obj, hist, sessions, threads>>

\* del x: the caller drops the reference (or the failed construction) and
\* starts over.
Discard ==
    /\ ~Fresh
    /\ last.op # "exit"
    /\ obj' = NoObject
    /\ last' = NoCall
    /\ hist' = NoHist
    /\ UNCHANGED <<sessions, threads>>

Next ==
    \/ NewForecast
    \/ NewMarineWeather
    \/ NewArchive
    \/ NewWeather
    \/ SetLat
    \/ SetLong
    \/ SetForecastDays
    \/ SetWaveType
    \/ SetStartDate
    \/ SetEndDate
    \/ GetCurrentAqi
    \/ GetCurrentAmmoniaConc
    \/ GetCurrentDustConc
    \/ GetCurrentGaseousConc
    \/ GetCurrentPm25Conc
    \/ GetCurrentPm10Conc
    \/ GetCurrentPollenConc
    \/ GetCurrentUvIndex
    \/ GetCurrentAerosolOpticalDepth
    \/ GetHourlyDustConc
    \/ GetHourlyUvIndex
    \/ GetHourlyPm25Conc
    \/ GetHourlyPm10Conc
    \/ GetHourlyPollenConc
    \/ GetHourlyAerosolOpticalDepth
    \/ GetHourlyGaseousConc
    \/ GetHourlyAmmoniaConc
    \/ GetCurrentSummary
    \/ GetHourlySummary
    \/ GetDailySummary
    \/ GetCurrentWaveHeight
    \/ GetCurrentWaveDirection
    \/ GetCurrentWavePeriod
    \/ GetHourlyWaveHeight
    \/ GetHourlyWaveDirection
    \/ GetHourlyWavePeriod
    \/ GetDailyMaxWaveHeight
    \/ GetDailyDominantWaveDirection
    \/ GetDailyMaxWavePeriod
    \/ GetHourlyTemperature
    \/ GetHourlyRelativeHumidity
    \/ GetPeriodicWeatherCode
    \/ GetHourlyTotalCloudCover
    \/ GetHourlyCloudCover
    \/ GetHourlyApparentTemperature
    \/ GetHourlyDewPoint
    \/ GetHourlyPrecipitation
    \/ GetHourlyWindSpeed
    \/ GetHourlyWindDirection
    \/ GetHourlyWindGusts
    \/ GetHourlySoilTemperature
    \/ GetDailyTemperature
    \/ GetDailyApparentTemperature
    \/ GetDailyDominantWindDirection
    \/ GetCurrentTemperature
    \/ GetCurrentWeatherCode
    \/ GetCurrentTotalCloudCover
    \/ GetCurrentCloudCover
    \/ Forget
    \/ Discard
    \/ Exit

Spec == Init /\ [][Next]_vars

(***************************************************************************)
(* Two threads setting properties of one object. The chained assignment    *)
(* self._lat = self._params["latitude"] = __value stores the attribute      *)
(* first and the dictionary entry second, and the forecast_days setter      *)
(* does the same in two statements; another thread may run between the two  *)
(* stores.                                                                  *)
(***************************************************************************)
\* The properties whose setter writes an attribute and a template entry.
TemplateProperties == {"lat", "long", "forecast_days"}
PropertyAttribute ==
    [lat |-> "_lat", long |-> "_long", forecast_days |-> "_forecast_days"]
PropertyKey ==
    [lat |-> "latitude", long |-> "longitude",
     forecast_days |-> "forecast_days"]

\* The entry the setter of property p stores in the template for value v.
TemplateEntry(p, v) == IF p = "forecast_days" THEN v ELSE Some(v)

\* x.<p> = v run by one thread without interruption.
Setter(p, o, v, sent, resp) ==
    CASE p = "lat" -> lat_setter(o, v, sent, resp)
      [] p = "long" -> long_setter(o, v, sent, resp)
      [] p = "forecast_days" -> forecast_days_setter(o, v, sent, resp)

\* The values the threads assign: two accepted values and a rejected one
\* for each property.
PropertyInputs(p) ==
    CASE p = "lat" -> {MinLat, MaxLat, MaxLat + 1}
      [] p = "long" -> {BaseMinLong, BaseMaxLong, BaseMaxLong + 1}
      [] p = "forecast_days" ->
            {ForecastRangeStart, DefaultForecastDays, ForecastRangeStop}

\* The objects the threads share: constructed with accepted arguments.
ThreadObjects ==
    {BaseForecast__init__(NewObject(c), MinLat, BaseMinLong,
                          DefaultForecastDays, <<>>, NoResponses).o :
        c \in {"BaseForecast", "AirQuality"}}
    \cup
    {r.o : r \in {x \in {MarineWeather__init__(NewObject("MarineWeather"),
                                               MinLat, BaseMinLong,
                                               "composite",
                                               DefaultForecastDays, <<>>,
                                               resp) :
                            resp \in ResponsesFor("MarineWeather")} :
                     x.exc = "none"}}

ThreadInit ==
    /\ sessions = ClassSessions
    /\ obj \in ThreadObjects
    /\ last = NoCall
    /\ hist = NoHist
    /\ threads = [t \in Threads |-> Idle]

\* Thread t runs x.<p> = v up to and including the attribute store: the
\* assertion, then __setattr__ (MarineWeather's probe included). A failed
\* assertion or probe ends the setter; otherwise the dictionary store is
\* still to come.
ThreadStoreAttr ==
    /\ obj # NoObject
    /\ \E t \in Threads, p \in TemplateProperties :
         \E v \in PropertyInputs(p), resp \in ResponsesFor(obj.cls) :
           /\ threads[t].pc = "idle"
           /\ IF Setter(p, obj, v, <<>>, resp).exc = "AssertionError"
              THEN /\ obj' = obj
                   /\ threads' = [threads EXCEPT ![t].used = TRUE]
              ELSE LET r == SetAttribute(obj, PropertyAttribute[p], v, <<>>,
                                         resp)
                   IN  /\ obj' = r.o
                       /\ threads' = [threads EXCEPT ![t] =
                                         IF r.exc = "none"
                                         THEN [pc |-> "store", op |-> p,
                                               v |-> v, used |-> TRUE]
                                         ELSE [Idle EXCEPT !.used = TRUE]]
           /\ UNCHANGED <<last, hist, sessions>>

\* Thread t stores the dictionary entry and leaves the setter.
ThreadStoreItem ==
    /\ obj # NoObject
    /\ \E t \in Threads :
         /\ threads[t].pc = "store"
         /\ obj' = [obj EXCEPT !._params =
                       SetItem(@, PropertyKey[threads[t].op],
                               TemplateEntry(threads[t].op, threads[t].v))]
         /\ threads' = [threads EXCEPT ![t] = [Idle EXCEPT !.used = TRUE]]
         /\ UNCHANGED <<last, hist, sessions>>

ThreadNext ==
    \/ ThreadStoreAttr
    \/ ThreadStoreItem

ThreadSpec == ThreadInit /\ [][ThreadNext]_vars

(***************************************************************************)
(* The documented domain of the arguments.                                 *)
(***************************************************************************)
ValidationErrors == {"AssertionError", "ValueError"}

ValidLat(v) == MinLat <= v /\ v <= MaxLat
\* Longitudes run from -180 to 180, the range Weather.__init__ states.
ValidLong(v) == WeatherMinLong <= v /\ v <= WeatherMaxLong

\* The forecast window of each domain: 16 days, 8 for MarineWeather
\* (_max_forecast_days), 7 for AirQuality (_max_forecast_days).
MaxForecastDays(c) ==
    CASE c = "MarineWeather" -> MarineMaxForecastDays
      [] c = "AirQuality" -> AirMaxForecastDays
      [] OTHER -> ForecastRangeStop - 1
ValidForecastDays(c, v) == ForecastRangeStart <= v /\ v <= MaxForecastDays(c)

ValidWaveType(w) == w \in {"composite", "wind", "swell"}

\* The calendar day a date argument denotes, 0 if it denotes none.
Denotes(t) ==
    IF t.kind \in {"date", "datetime"} \/
       (t.kind = "str" /\ t.m \in 1..Months /\ t.d \in 1..DaysPerMonth)
    THEN Ordinal(t.y, t.m, t.d)
    ELSE 0
ValidDate(t) == Denotes(t) >= 1 /\ Denotes(t) <= Today

\* The arguments of a constructor call other than the coordinates.
ValidOtherArgs(c) ==
    /\ c.cls \in ForecastClasses =>
          ValidForecastDays(c.cls, ForecastArg(c.args.forecast_days))
    /\ c.cls = "MarineWeather" => ValidWaveType(c.args.wave_type)
    /\ c.cls = "Archive" =>
          /\ ValidDate(c.args.start_date)
          /\ ValidDate(c.args.end_date)
          /\ Denotes(c.args.end_date) > Denotes(c.args.start_date)

\* Every probe of the call was answered 200.
ProbesOK(c) == \A i \in 1..Len(c.sent) : c.sent[i].status = HTTP_OK

\* The call c, made on the object o (NoObject for a constructor), has an
\* argument outside its documented domain.
InvalidCall(c, o) ==
    CASE c.op = "__init__" ->
            ~ValidLat(c.args.lat) \/ ~ValidLong(c.args.long) \/
            ~ValidOtherArgs(c)
      [] c.op = "lat" -> ~ValidLat(c.args.lat)
      [] c.op = "long" -> ~ValidLong(c.args.long)
      [] c.op = "forecast_days" ->
            ~ValidForecastDays(c.cls, c.args.forecast_days)
      [] c.op = "wave_type" -> ~ValidWaveType(c.args.wave_type)
      [] c.op = "start_date" -> ~ValidDate(c.args.start_date)
      [] c.op = "end_date" ->
            ~ValidDate(c.args.end_date) \/
            ~(Denotes(c.args.end_date) > o._start_date)
      [] OTHER -> FALSE

(***************************************************************************)
(* Claims.                                                                 *)
(***************************************************************************)

\* C1: a constructor call with latitude in [-90, 90] and longitude in
\* [-180, 180] (its other arguments valid, its probes answered 200)
\* succeeds; with a latitude or longitude outside those ranges it fails with
\* a validation error and the caller is left without an object.
C1_ConstructionValidatesCoordinates ==
    last.op = "__init__" =>
        /\ (ValidLat(last.args.lat) /\ ValidLong(last.args.long) /\
            ValidOtherArgs(last) /\ ProbesOK(last))
              => (last.exc = "none" /\ obj.cls = last.cls)
        /\ (~ValidLat(last.args.lat) \/ ~ValidLong(last.args.long))
              => (last.exc \in ValidationErrors /\ obj = NoObject)

\* C2: whatever lat and long setter calls were made on an object, accepted
\* or failed, its lat equals the template's latitude entry and its long the
\* template's longitude entry.
C2_CoordinatesMatchTemplate ==
    obj.cls \in SetterClasses =>
        /\ obj._params.latitude = Some(lat_getter(obj))
        /\ obj._params.longitude = Some(long_getter(obj))

\* C3: setting forecast_days to the domain's maximum (16, MarineWeather 8,
\* AirQuality 7) succeeds; setting it to the maximum plus one fails with a
\* validation error and leaves forecast_days and the template's
\* forecast_days entry at their previous values.
C3_ForecastDaysBound ==
    [][last'.op = "forecast_days" =>
          LET v == last'.args.forecast_days
              max == MaxForecastDays(last'.cls)
          IN  /\ v = max =>
                    (last'.exc = "none" /\ obj'._forecast_days = max)
              /\ v = max + 1 =>
                    /\ last'.exc \in ValidationErrors
                    /\ obj'._forecast_days = obj._forecast_days
                    /\ obj'._params.forecast_days = obj._params.forecast_days
      ]_vars

\* C4: in every state of a constructed forecast object the template's
\* forecast_days entry equals the forecast_days property; it is 7 when the
\* constructor was given no forecast_days and the property was never set;
\* and a successful set leaves the template entry at the value set.
C4_ForecastDaysInTemplate ==
    obj.cls \in ForecastClasses =>
        /\ "forecast_days" \in DOMAIN obj._params
        /\ obj._params.forecast_days = obj._forecast_days
        /\ (~hist.fd_given /\ ~hist.fd_set)
              => obj._forecast_days = DefaultForecastDays
        /\ (last.op = "forecast_days" /\ last.exc = "none")
              => obj._params.forecast_days = last.args.forecast_days

\* C4 witness: a forecast object built with the default window whose
\* forecast_days was then set to another value.
C4_Witness ==
    /\ obj.cls \in ForecastClasses
    /\ ~hist.fd_given
    /\ last.op = "forecast_days"
    /\ last.exc = "none"
    /\ last.args.forecast_days # DefaultForecastDays
    /\ obj._forecast_days = last.args.forecast_days

\* C5: constructing a MarineWeather with valid arguments issues exactly one
\* availability probe, whose parameters hold both coordinates; the
\* construction fails with a request error when the probe's status is not
\* 200 and succeeds when it is 200.
C5_ConstructionProbesOnce ==
    (last.op = "__init__" /\ last.cls = "MarineWeather" /\
     ValidLat(last.args.lat) /\ ValidLong(last.args.long) /\
     ValidOtherArgs(last)) =>
        /\ Len(last.sent) = 1
        /\ last.sent[1].params.latitude = Some(last.args.lat)
        /\ last.sent[1].params.longitude = Some(last.args.long)
        /\ last.sent[1].status # HTTP_OK
              => (last.exc = "RequestError" /\ obj = NoObject)
        /\ last.sent[1].status = HTTP_OK
              => (last.exc = "none" /\ obj.cls = "MarineWeather")

\* C6: a set of lat or long to an in-range value on a constructed
\* MarineWeather issues exactly one availability probe, the probe's
\* latitude and longitude are the object's coordinates after the set, and a
\* probe answered other than 200 raises a request error.
C6_SetterProbesNewCoordinates ==
    (last.cls = "MarineWeather" /\
     ((last.op = "lat" /\ ValidLat(last.args.lat)) \/
      (last.op = "long" /\ ValidLong(last.args.long)))) =>
        /\ Len(last.sent) = 1
        /\ last.sent[1].params.latitude = Some(obj._lat)
        /\ last.sent[1].params.longitude = Some(obj._long)
        /\ last.op = "lat" => obj._lat = last.args.lat
        /\ last.op = "long" => obj._long = last.args.long
        /\ last.sent[1].status # HTTP_OK => last.exc = "RequestError"

\* C7: a constructor or setter call with an invalid argument raises its
\* validation error without having issued any request and leaves the
\* object's state unchanged.
C7_ValidationBeforeRequests ==
    [][InvalidCall(last', obj) =>
          /\ last'.exc \in ValidationErrors
          /\ last'.sent = <<>>
          /\ obj' = obj
      ]_vars

\* C8: whatever start_date and end_date setter calls were made on an
\* Archive, end_date is strictly after start_date and neither is later than
\* today.
C8_DateRangeOrdered ==
    obj.cls = "Archive" =>
        /\ obj._end_date > obj._start_date
        /\ obj._start_date <= Today
        /\ obj._end_date <= Today

\* C9: constructing an Archive fails when end_date equals start_date,
\* succeeds when end_date is the day after start_date and neither is in the
\* future, and fails when start_date is in the future.
C9_ArchiveConstruction ==
    (last.op = "__init__" /\ last.cls = "Archive" /\
     ValidLat(last.args.lat) /\ ValidLong(last.args.long)) =>
        LET sd == Denotes(last.args.start_date)
            ed == Denotes(last.args.end_date)
        IN  /\ (sd >= 1 /\ ed = sd) => (last.exc # "none" /\ obj = NoObject)
            /\ (sd >= 1 /\ ed = sd + 1 /\ ed <= Today)
                  => (last.exc = "none" /\ obj.cls = "Archive")
            /\ sd > Today => (last.exc # "none" /\ obj = NoObject)

\* C10: in every state of an Archive the template's start_date and
\* end_date entries denote the dates the start_date and end_date properties
\* return.
C10_TemplateDatesCurrent ==
    obj.cls = "Archive" =>
        /\ Denotes(obj._params.start_date) = Denotes(start_date_getter(obj))
        /\ Denotes(obj._params.end_date) = Denotes(end_date_getter(obj))

(***************************************************************************)
(* The documented domain of the accessors' arguments.                      *)
(***************************************************************************)
\* The temperature units a class documents: Weather spells the first one
\* 'celcius', Archive 'celsius'.
TemperatureUnits(c) ==
    IF c = "Weather" THEN {"celcius", "fahrenheit"}
    ELSE {"celsius", "fahrenheit"}
WindSpeedOps == {"get_hourly_wind_speed", "get_hourly_wind_gusts"}
\* The units an accessor documents for its unit argument.
Units(c) ==
    CASE c.op \in WindSpeedOps -> {"kmh", "mph", "ms", "kn"}
      [] c.op = "get_hourly_precipitation" -> {"mm", "inch"}
      [] OTHER -> TemperatureUnits(c.cls)
\* The altitudes a class documents.
Altitudes(c) == IF c = "Weather" THEN {2, 80, 120, 180} ELSE {10, 100}

\* The call c takes an argument of an enumerated type.
TakesEnumerated(c) ==
    DOMAIN c.args \cap {"source", "gas", "plant", "unit", "altitude",
                        "level", "frequency", "type"} # {}

\* Every enumerated argument of the call c is inside its documented set.
InsideClosedSets(c) ==
    /\ "source" \in DOMAIN c.args => c.args.source \in {"european", "us"}
    /\ "gas" \in DOMAIN c.args =>
          c.args.gas \in {"ozone", "carbon_monoxide", "nitrogen_dioxide",
                          "sulphur_dioxide"}
    /\ "plant" \in DOMAIN c.args =>
          c.args.plant \in {"alder", "birch", "grass", "mugwort", "olive",
                            "ragweed"}
    /\ "unit" \in DOMAIN c.args => c.args.unit \in Units(c)
    /\ "altitude" \in DOMAIN c.args => c.args.altitude \in Altitudes(c.cls)
    /\ "level" \in DOMAIN c.args => c.args.level \in {"low", "mid", "high"}
    /\ "frequency" \in DOMAIN c.args =>
          c.args.frequency \in {"hourly", "daily"}
    /\ "type" \in DOMAIN c.args => c.args.type \in {"max", "min", "mean"}

\* The soil depth of the call c, if it takes one, is between 0 and 255 cm.
DepthValid(c) == "depth" \in DOMAIN c.args => c.args.depth \in 0..255

\* The accessor call c passes validation.
AccessorArgsValid(c) == InsideClosedSets(c) /\ DepthValid(c)

\* C11: an accessor taking an enumerated argument (gas, plant, AQI source,
\* unit, altitude, cloud level, frequency, daily type) raises a validation
\* error and issues no request when the argument is outside its closed set,
\* and issues its request when every argument is valid.
C11_EnumeratedArguments ==
    (last.op \in AccessorOps /\ TakesEnumerated(last)) =>
        /\ ~InsideClosedSets(last) =>
              (last.exc \in ValidationErrors /\ last.sent = <<>>)
        /\ AccessorArgsValid(last) => Len(last.sent) >= 1

\* C11 witness: a wind speed call with a valid altitude and a unit outside
\* the set was refused before any request.
C11_Witness ==
    /\ last.op = "get_hourly_wind_speed"
    /\ last.args.altitude = 10
    /\ last.args.unit = "fps"
    /\ last.exc = "ValueError"
    /\ last.sent = <<>>

\* C12: an accessor call whose arguments pass validation issues exactly one
\* GET, whether it is answered 200 or not and whether or not the same call
\* was made just before.
C12_ExactlyOneRequest ==
    (last.op \in AccessorOps /\ AccessorArgsValid(last)) => Len(last.sent) = 1

\* C12 witness: a valid Archive call was answered 500 and stopped after
\* its one request.
C12_Witness ==
    /\ last.op = "get_hourly_relative_humidity"
    /\ Len(last.sent) = 1
    /\ last.sent[1].status = HTTP_SERVER_ERROR
    /\ last.exc = "RequestError"

\* C13: a call one of whose requests (the MarineWeather probe included) is
\* answered with a status other than 200 fails with a RequestError whose
\* message holds that status code and the server's reason, and returns
\* nothing; a call whose requests are all answered 200 raises no
\* RequestError.
C13_RequestErrorOnFailure ==
    /\ \A i \in 1..Len(last.sent) :
          last.sent[i].status # HTTP_OK =>
              /\ last.exc = "RequestError"
              /\ last.error = "Server responded with status code "
                                  \o ToString(last.sent[i].status) \o ". "
                                  \o last.sent[i].reason
              /\ last.value = None
              /\ last.op = "__init__" => obj = NoObject
    /\ ProbesOK(last) => last.exc # "RequestError"

\* C13 witness: the probe of a MarineWeather coordinate set was answered
\* 400 and the set raised RequestError.
C13_Witness ==
    /\ last.cls = "MarineWeather"
    /\ last.op \in {"lat", "long"}
    /\ Len(last.sent) = 1
    /\ last.sent[1].status = HTTP_BAD_REQUEST
    /\ last.exc = "RequestError"

\* The AirQuality accessors of fields available in Europe only.
EuropeOnlyOps ==
    {"get_current_ammonia_conc", "get_current_pollen_conc",
     "get_hourly_ammonia_conc", "get_hourly_pollen_conc"}

\* C14: an AirQuality accessor of a Europe-only field (ammonia, a pollen)
\* whose request is answered 200 with a null value returns that null and
\* raises nothing.
C14_NullResultReturned ==
    (last.op \in EuropeOnlyOps /\ Len(last.sent) = 1 /\
     last.sent[1].status = HTTP_OK /\ last.sent[1].body = None) =>
        (last.exc = "none" /\ last.value = None)

\* C14 witness: the current ammonia concentration was answered 200 with
\* null and the accessor returned None.
C14_Witness ==
    /\ last.op = "get_current_ammonia_conc"
    /\ Len(last.sent) = 1
    /\ last.sent[1].status = HTTP_OK
    /\ last.sent[1].body = None
    /\ last.exc = "none"
    /\ last.value = None

\* The properties of the object and their template entries agree.
PropertiesMatchTemplate(o) ==
    \A p \in TemplateProperties :
        o._params[PropertyKey[p]] = TemplateEntry(p, o[PropertyAttribute[p]])

\* C15: when one object is mutated by a single thread, no state is reachable
\* in which a property (lat, long, forecast_days) and its template entry
\* hold different values: whenever no thread is inside a setter and at most
\* one thread has called setters, the properties and the template agree.
C15_SingleThreadAgreement ==
    ((\A t \in Threads : threads[t].pc = "idle") /\
     Cardinality({t \in Threads : threads[t].used}) <= 1) =>
        PropertiesMatchTemplate(obj)

\* C16: every request of an instance of a domain class goes through the
\* session of that class, the sessions of different domain classes are
\* different sessions, and no operation on an instance replaces or closes a
\* class's session (only the exit of the interpreter touches them).
C16_SessionPerClass ==
    /\ last.cls \in DomainClasses =>
          \A i \in 1..Len(last.sent) :
              last.sent[i].session = ClassSessions[last.cls].id
    /\ \A c, d \in DomainClasses :
          c # d => sessions[c].id # sessions[d].id
    /\ last.op # "exit" => sessions = ClassSessions

\* The probe of a MarineWeather setter went through MarineWeather's session.
C16_Witness ==
    /\ last.cls = "MarineWeather"
    /\ last.op = "long"
    /\ Len(last.sent) = 1
    /\ last.sent[1].session = ClassSessions["MarineWeather"].id
    /\ sessions = ClassSessions

\* C17: when the process exits, the session of every domain class (Weather,
\* MarineWeather, AirQuality, Archive) is closed.
C17_SessionsClosedAtExit ==
    last.op = "exit" => \A c \in DomainClasses : sessions[c].closed

\* The parameter mappings of the requests of a call, in order.
SentParams(c) == [i \in 1..Len(c.sent) |-> c.sent[i].params]

\* C19: no accessor call changes the object (its template or any of its
\* properties), whether its request succeeds or fails; and an accessor call
\* that repeats the previous call, with no setter call in between, sends
\* the same parameter mappings as the previous one.
C19_AccessorsLeaveObject ==
    [][last'.op \in AccessorOps =>
          /\ obj' = obj
          /\ (last.op = last'.op /\ last.args = last'.args) =>
                SentParams(last') = SentParams(last)]_vars

\* An accessor whose request failed: the template is still without the
\* call's key.
C19_Witness ==
    /\ last.op = "get_current_ammonia_conc"
    /\ last.exc = "RequestError"
    /\ Len(last.sent) = 1
    /\ "current" \in DOMAIN last.sent[1].params
    /\ "current" \notin DOMAIN obj._params

\* C20: the parameter mapping of every request issued by an accessor holds
\* latitude and longitude equal to the object's current coordinates, exactly
\* one of the keys current / hourly / daily, forecast_days (forecast
\* domains) or start_date and end_date (Archive) equal to the object's
\* current values, and every template entry unchanged by the call's keys.
C20_RequestParameters ==
    last.op \in AccessorOps =>
        \A i \in 1..Len(last.sent) :
            LET params == last.sent[i].params
            IN  /\ params.latitude = Some(lat_getter(obj))
                /\ params.longitude = Some(long_getter(obj))
                /\ Cardinality({"current", "hourly", "daily"}
                               \cap DOMAIN params) = 1
                /\ obj.cls \in ForecastClasses =>
                      params.forecast_days = obj._forecast_days
                /\ obj.cls = "Archive" =>
                      /\ Denotes(params.start_date) =
                            Denotes(start_date_getter(obj))
                      /\ Denotes(params.end_date) =
                            Denotes(end_date_getter(obj))
                /\ \A k \in DOMAIN obj._params : params[k] = obj._params[k]

(***************************************************************************)
(* An object rebuilt from the properties of another.                       *)
(***************************************************************************)
\* Every request answered 200.
Answered200 ==
    [i \in 1..MaxRequests |-> [status |-> HTTP_OK, reason |-> "",
                               value |-> None]]

\* Cls(x.lat, x.long, ...): a fresh object of the class of o, constructed
\* from what the properties of o return.
Reconstruct(o) ==
    CASE o.cls \in {"BaseForecast", "AirQuality"} ->
            BaseForecast__init__(NewObject(o.cls), lat_getter(o),
                                 long_getter(o), o._forecast_days, <<>>,
                                 Answered200)
      [] o.cls = "MarineWeather" ->
            MarineWeather__init__(NewObject(o.cls), lat_getter(o),
                                  long_getter(o), o._wave_type,
                                  o._forecast_days, <<>>, Answered200)
      [] o.cls = "Archive" ->
            Archive__init__(NewObject(o.cls), lat_getter(o), long_getter(o),
                            start_date_getter(o), end_date_getter(o), <<>>,
                            Answered200)
      [] o.cls = "Weather" ->
            Weather__init__(NewObject(o.cls), lat_getter(o), long_getter(o),
                            <<>>, Answered200)

\* getattr(o, op)(**args)
Perform(o, op, args, sent, resp) ==
    CASE op = "get_current_aqi" -> get_current_aqi(o, args.source, sent, resp)
      [] op = "get_current_ammonia_conc" ->
            get_current_ammonia_conc(o, sent, resp)
      [] op = "get_current_dust_conc" -> get_current_dust_conc(o, sent, resp)
      [] op = "get_current_gaseous_conc" ->
            get_current_gaseous_conc(o, args.gas, sent, resp)
      [] op = "get_current_pm2_5_conc" ->
            get_current_pm2_5_conc(o, sent, resp)
      [] op = "get_current_pm10_conc" -> get_current_pm10_conc(o, sent, resp)
      [] op = "get_current_pollen_conc" ->
            get_current_pollen_conc(o, args.plant, sent, resp)
      [] op = "get_current_uv_index" -> get_current_uv_index(o, sent, resp)
      [] op = "get_current_aerosol_optical_depth" ->
            get_current_aerosol_optical_depth(o, sent, resp)
      [] op = "get_hourly_dust_conc" -> get_hourly_dust_conc(o, sent, resp)
      [] op = "get_hourly_uv_index" -> get_hourly_uv_index(o, sent, resp)
      [] op = "get_hourly_pm2_5_conc" -> get_hourly_pm2_5_conc(o, sent, resp)
      [] op = "get_hourly_pm10_conc" -> get_hourly_pm10_conc(o, sent, resp)
      [] op = "get_hourly_pollen_conc" ->
            get_hourly_pollen_conc(o, args.plant, sent, resp)
      [] op = "get_hourly_aerosol_optical_depth" ->
            get_hourly_aerosol_optical_depth(o, sent, resp)
      [] op = "get_hourly_gaseous_conc" ->
            get_hourly_gaseous_conc(o, args.gas, sent, resp)
      [] op = "get_hourly_ammonia_conc" ->
            get_hourly_ammonia_conc(o, sent, resp)
      [] op = "get_current_summary" -> get_current_summary(o, sent, resp)
      [] op = "get_hourly_summary" -> get_hourly_summary(o, sent, resp)
      [] op = "get_daily_summary" -> get_daily_summary(o, sent, resp)
      [] op = "get_current_wave_height" ->
            get_current_wave_height(o, sent, resp)
      [] op = "get_current_wave_direction" ->
            get_current_wave_direction(o, sent, resp)
      [] op = "get_current_wave_period" ->
            get_current_wave_period(o, sent, resp)
      [] op = "get_hourly_wave_height" ->
            get_hourly_wave_height(o, sent, resp)
      [] op = "get_hourly_wave_direction" ->
            get_hourly_wave_direction(o, sent, resp)
      [] op = "get_hourly_wave_period" ->
            get_hourly_wave_period(o, sent, resp)
      [] op = "get_daily_max_wave_height" ->
            get_daily_max_wave_height(o, sent, resp)
      [] op = "get_daily_dominant_wave_direction" ->
            get_daily_dominant_wave_direction(o, sent, resp)
      [] op = "get_daily_max_wave_period" ->
            get_daily_max_wave_period(o, sent, resp)
      [] op = "get_hourly_temperature" ->
            get_hourly_temperature(o, args.unit, sent, resp)
      [] op = "get_hourly_relative_humidity" ->
            get_hourly_relative_humidity(o, sent, resp)
      [] op = "get_periodic_weather_code" ->
            get_periodic_weather_code(o, args.frequency, sent, resp)
      [] op = "get_hourly_total_cloud_cover" ->
            get_hourly_total_cloud_cover(o, sent, resp)
      [] op = "get_hourly_cloud_cover" ->
            get_hourly_cloud_cover(o, args.level, sent, resp)
      [] op = "get_hourly_apparent_temperature" ->
            get_hourly_apparent_temperature(o, args.unit, sent, resp)
      [] op = "get_hourly_dew_point" ->
            get_hourly_dew_point(o, args.unit, sent, resp)
      [] op = "get_hourly_precipitation" ->
            get_hourly_precipitation(o, args.unit, sent, resp)
      [] op = "get_hourly_wind_speed" ->
            get_hourly_wind_speed(o, args.altitude, args.unit, sent, resp)
      [] op = "get_hourly_wind_direction" ->
            get_hourly_wind_direction(o, args.altitude, sent, resp)
      [] op = "get_hourly_wind_gusts" ->
            get_hourly_wind_gusts(o, args.altitude, args.unit, sent, resp)
      [] op = "get_hourly_soil_temperature" ->
            get_hourly_soil_temperature(o, args.depth, args.unit, sent, resp)
      [] op = "get_daily_temperature" ->
            get_daily_temperature(o, args.type, args.unit, sent, resp)
      [] op = "get_daily_apparent_temperature" ->
            get_daily_apparent_temperature(o, args.type, args.unit, sent, resp)
      [] op = "get_daily_dominant_wind_direction" ->
            get_daily_dominant_wind_direction(o, sent, resp)
      [] op = "get_current_temperature" ->
            get_current_temperature(o, args.altitude, args.unit, sent, resp)
      [] op = "get_current_weather_code" ->
            get_current_weather_code(o, sent, resp)
      [] op = "get_current_total_cloud_cover" ->
            get_current_total_cloud_cover(o, sent, resp)
      [] op = "get_current_cloud_cover" ->
            get_current_cloud_cover(o, args.level, sent, resp)

\* A parameter mapping with its dates read as calendar days.
DatesRead(params) ==
    [k \in DOMAIN params |->
        IF k \in {"start_date", "end_date"} THEN Denotes(params[k])
        ELSE params[k]]

\* C18: for a domain object reached by any sequence of setter calls, a fresh
\* object constructed from the first object's current lat, long and
\* forecast_days (or date range) sends, for the accessor call just made on
\* the first object, the same parameter mappings as the first object sent.
C18_ReconstructedSendsSame ==
    (last.op \in AccessorOps /\ Reconstruct(obj).exc = "none") =>
        LET again == Perform(Reconstruct(obj).o, last.op, last.args, <<>>,
                             Answered200)
        IN  /\ Len(again.sent) = Len(last.sent)
            /\ \A i \in 1..Len(last.sent) :
                  DatesRead(again.sent[i].params) =
                      DatesRead(last.sent[i].params)

(***************************************************************************)
(* Archive: soil depth.                                                    *)
(***************************************************************************)
\* The documented sub-ranges of soil depth, in centimetres, both ends
\* included, and the request key of each.
SoilSubRanges ==
    {[low |-> 0, high |-> 7, key |-> "soil_temperature_0_to_7cm"],
     [low |-> 7, high |-> 28, key |-> "soil_temperature_7_to_28cm"],
     [low |-> 28, high |-> 100, key |-> "soil_temperature_28_to_100cm"],
     [low |-> 100, high |-> 255, key |-> "soil_temperature_100_to_255cm"]}

\* C21: get_hourly_soil_temperature, called with a valid unit, sends for a
\* depth in [0, 255] one request whose key is that of a documented sub-range
\* holding the depth (7, 28, 100 and 255 included); for a depth outside
\* [0, 255] it raises a validation error and sends nothing.
C21_SoilDepthRanges ==
    (last.op = "get_hourly_soil_temperature" /\
     last.args.unit \in {"celsius", "fahrenheit"}) =>
        IF last.args.depth \in 0..255
        THEN /\ Len(last.sent) = 1
             /\ \E r \in SoilSubRanges :
                   /\ r.low <= last.args.depth
                   /\ last.args.depth <= r.high
                   /\ last.sent[1].params.hourly = r.key
        ELSE /\ last.exc = "ValueError"
             /\ last.sent = <<>>

\* The deepest depth was asked for and the deepest range requested.
C21_Witness ==
    /\ last.op = "get_hourly_soil_temperature"
    /\ last.args.depth = 255
    /\ Len(last.sent) = 1
    /\ last.sent[1].params.hourly = "soil_temperature_100_to_255cm"

(***************************************************************************)
(* MarineWeather: summaries.                                               *)
(***************************************************************************)
SummaryOps ==
    {"get_current_summary", "get_hourly_summary", "get_daily_summary"}

\* The key of the request that carries the field keys of summary op.
SummaryFrequency(op) ==
    CASE op = "get_current_summary" -> "current"
      [] op = "get_hourly_summary" -> "hourly"
      [] op = "get_daily_summary" -> "daily"

\* The comma-joined list whose i-th key is prefix followed by labels[i].
PrefixedKeys(prefix, labels) ==
    join(",", [i \in 1..Len(labels) |-> prefix \o labels[i]])

\* C22: for every MarineWeather summary method and every wave type, the
\* comma-joined request key is the list whose i-th key is the wave type's
\* prefix followed by the i-th field name handed to the fetch primitive (and
\* so has as many keys as there are field names).
C22_SummaryKeysMatchLabels ==
    (last.op \in SummaryOps /\ last.exc = "none") =>
        last.sent[1].params[SummaryFrequency(last.op)] =
            PrefixedKeys(obj._type, last.value[2])

(***************************************************************************)
(* AirQuality: the index source.                                           *)
(***************************************************************************)
\* C23: get_current_aqi requests the index named by its source argument:
\* the key european_aqi for 'european' and the key us_aqi for 'us' (so the
\* two sources never request the same key).
C23_AqiKeyFollowsSource ==
    (last.op = "get_current_aqi" /\ Len(last.sent) >= 1) =>
        /\ last.args.source = "european" =>
              last.sent[1].params.current = "european_aqi"
        /\ last.args.source = "us" =>
              last.sent[1].params.current = "us_aqi"

(***************************************************************************)
(* MarineWeather: the wave type.                                           *)
(***************************************************************************)
\* The field each get_current_wave_* accessor asks for.
CurrentWaveField ==
    [get_current_wave_height |-> "wave_height",
     get_current_wave_direction |-> "wave_direction",
     get_current_wave_period |-> "wave_period"]

\* C24: in every state of a constructed MarineWeather the internal prefix is
\* the mapping of the public wave_type, which is 'composite', 'wind' or
\* 'swell'; a set of wave_type to any other value raises a validation error
\* and leaves the object as it was; and the key a get_current_wave_*
\* accessor requests is that prefix followed by its field.
C24_PrefixFollowsWaveType ==
    [][/\ obj'.cls = "MarineWeather" =>
             /\ obj'._wave_type \in {"composite", "wind", "swell"}
             /\ obj'._type = WAVE_TYPES_MAP[obj'._wave_type]
       /\ (last'.op = "wave_type" /\
           last'.args.wave_type \notin {"composite", "wind", "swell"}) =>
             /\ last'.exc = "ValueError"
             /\ obj' = obj
       /\ (last'.op \in DOMAIN CurrentWaveField /\ Len(last'.sent) = 1) =>
             last'.sent[1].params.current =
                 WAVE_TYPES_MAP[obj'._wave_type] \o CurrentWaveField[last'.op]
      ]_vars

\* A rejected set on an object whose wave type is 'wind'.
C24_Witness ==
    /\ last.op = "wave_type"
    /\ last.args.wave_type = "tidal"
    /\ last.exc = "ValueError"
    /\ obj._wave_type = "wind"
    /\ obj._type = WAVE_TYPES_MAP["wind"]

(***************************************************************************)
(* MarineWeather: a coordinate set whose probe fails.                      *)
(***************************************************************************)
\* C25: after a set of lat or long on a constructed MarineWeather fails
\* because the probe was answered with a status other than 200, the
\* coordinate properties and the template's coordinate entries hold the
\* values they had before the set.
C25_FailedProbeRollsBack ==
    [][(last'.cls = "MarineWeather" /\ last'.op \in {"lat", "long"} /\
        last'.exc = "RequestError") =>
           /\ obj'._lat = obj._lat
           /\ obj'._long = obj._long
           /\ obj'._params.latitude = obj._params.latitude
           /\ obj'._params.longitude = obj._params.longitude]_vars

(***************************************************************************)
(* The frame of the setters.                                               *)
(***************************************************************************)
\* The attributes a setter may assign and the template entry it may store.
OwnAttributes(op) ==
    CASE op = "lat" -> {"_lat"}
      [] op = "long" -> {"_long"}
      [] op = "forecast_days" -> {"_forecast_days"}
      [] op = "wave_type" -> {"_wave_type", "_type"}
      [] op = "start_date" -> {"_start_date"}
      [] op = "end_date" -> {"_end_date"}
OwnKeys(op) ==
    CASE op = "lat" -> {"latitude"}
      [] op = "long" -> {"longitude"}
      [] op = "forecast_days" -> {"forecast_days"}
      [] op = "wave_type" -> {}
      [] op = "start_date" -> {"start_date"}
      [] op = "end_date" -> {"end_date"}
SetterOps ==
    {"lat", "long", "forecast_days", "wave_type", "start_date", "end_date"}

\* C26: a successful set changes only its own property and that property's
\* template entry: every other attribute and every other template entry of
\* the object is as before, and none appears or disappears.
C26_SetterFrame ==
    [][(last'.op \in SetterOps /\ last'.exc = "none") =>
           /\ DOMAIN obj' = DOMAIN obj
           /\ DOMAIN obj'._params = DOMAIN obj._params
           /\ \A a \in DOMAIN obj \ ({"_params"} \cup OwnAttributes(last'.op)) :
                 obj'[a] = obj[a]
           /\ \A k \in DOMAIN obj._params \ OwnKeys(last'.op) :
                 obj'._params[k] = obj._params[k]]_vars

\* A successful set of long on a MarineWeather of wave type 'wind'.
C26_Witness ==
    /\ last.cls = "MarineWeather"
    /\ last.op = "long"
    /\ last.exc = "none"
    /\ obj._long = BaseMaxLong
    /\ obj._params.longitude = Some(BaseMaxLong)
    /\ obj._lat = MinLat
    /\ obj._params.latitude = Some(MinLat)
    /\ obj._wave_type = "wind"

(***************************************************************************)
(* MarineWeather: which setters probe.                                     *)
(***************************************************************************)
\* C27: on a constructed MarineWeather a set of forecast_days or wave_type,
\* to a valid or an invalid value, issues no request: a setter that issued
\* a request is the lat or the long setter.
C27_OnlyCoordinatesProbe ==
    (last.cls = "MarineWeather" /\ last.op \in SetterOps) =>
        /\ last.op \in {"forecast_days", "wave_type"} => last.sent = <<>>
        /\ last.sent # <<>> => last.op \in {"lat", "long"}

\* The wave type was changed to 'swell' and nothing was sent.
C27_Witness ==
    /\ last.cls = "MarineWeather"
    /\ last.op = "wave_type"
    /\ last.exc = "none"
    /\ obj._wave_type = "swell"
    /\ last.sent = <<>>

(***************************************************************************)
(* Archive: dates through the setters and the getters.                     *)
(***************************************************************************)
\* An ISO 'YYYY-MM-DD' string naming a day of the calendar.
IsISO(t) ==
    t.kind = "str" /\ t.width = 4 /\ t.m \in 1..Months /\
    t.d \in 1..DaysPerMonth

\* C28: the Archive date setters accept an ISO 'YYYY-MM-DD' string, a date
\* or a datetime (of a day up to today; an end_date after start_date) and
\* store the day it denotes; the getters return the ISO string of the
\* stored date; and a set of start_date (end_date) to the value its own
\* getter returns succeeds and leaves the stored date as it was.
C28_DateRoundTrip ==
    obj.cls = "Archive" =>
        /\ IsISO(start_date_getter(obj))
        /\ IsISO(end_date_getter(obj))
        /\ Denotes(start_date_getter(obj)) = obj._start_date
        /\ Denotes(end_date_getter(obj)) = obj._end_date
        /\ (last.op = "start_date" /\
            (IsISO(last.args.start_date) \/
             last.args.start_date.kind \in {"date", "datetime"}) /\
            Denotes(last.args.start_date) <= Today) =>
              /\ last.exc = "none"
              /\ obj._start_date = Denotes(last.args.start_date)
        /\ (last.op = "end_date" /\
            (IsISO(last.args.end_date) \/
             last.args.end_date.kind \in {"date", "datetime"}) /\
            Denotes(last.args.end_date) <= Today /\
            Denotes(last.args.end_date) > obj._start_date) =>
              /\ last.exc = "none"
              /\ obj._end_date = Denotes(last.args.end_date)
        /\ (last.op = "start_date" /\
            last.args.start_date = start_date_getter(obj)) =>
              last.exc = "none"
        /\ (last.op = "end_date" /\
            last.args.end_date = end_date_getter(obj)) =>
              last.exc = "none"

(***************************************************************************)
(* Archive: wind.                                                          *)
(***************************************************************************)
\* The kind of wind data each Archive wind accessor asks for.
WindKind ==
    [get_hourly_wind_speed |-> "speed",
     get_hourly_wind_direction |-> "direction",
     get_hourly_wind_gusts |-> "gusts"]

\* C29: an Archive wind accessor (speed, direction, gusts) called with an
\* altitude of 10 or 100 requests the key wind_<kind>_<altitude>m; called
\* with any other altitude it raises a validation error.
C29_WindKeyForm ==
    last.op \in DOMAIN WindKind =>
        /\ (last.args.altitude \in {10, 100} /\ Len(last.sent) >= 1) =>
              last.sent[1].params.hourly =
                  "wind_" \o WindKind[last.op] \o "_"
                      \o ToString(last.args.altitude) \o "m"
        /\ last.args.altitude \notin {10, 100} => last.exc = "ValueError"

====
